---- MODULE Spec2Model ----
(***************************************************************************)
(* Model of the segmented write-ahead log of heyvito/wal: the Index, its   *)
(* IndexSegments, the DataManager and its DataSegments, driven through the *)
(* WAL facade (WriteObject, ReadObject, ReadObjects, VacuumRecords, Close, *)
(* New).  Segment objects carry both their in-memory fields and the        *)
(* memory-mapped regions of their file (Metadata = header, Records = slot  *)
(* or payload area); the directory listing is kept next to each manager.   *)
(***************************************************************************)
EXTENDS Integers, Sequences, FiniteSets, TLC

----------------------------------------------------------------------------
(* Bounds of the model *)

MaxWrites == 4          \* WriteObject calls per behaviour
MaxPayloadLen == 2      \* longest payload, in bytes
MaxIndexSlots == 2      \* the configured IndexSegmentSize holds 1..MaxIndexSlots records
DataSegmentSize == 2    \* the configured DataSegmentSize, in bytes
MaxVacuums == 2         \* VacuumRecords calls per behaviour
MaxCloses == 1          \* Close calls (each followed by a re-open) per behaviour
MaxFlocks == 3          \* Flock instances created on the lock path per behaviour
MaxSegmentSlots == 3     \* record slots of the index segment driven on its own
MaxFirstID == 1          \* the largest id that segment's first record may have
MaxWriters == 2         \* goroutines calling WriteObject concurrently
MaxFailures == 2        \* WriteObject calls that fail in the data layer per behaviour

(* Program constants *)

IndexRecordSize == 41
NoSegment == -1         \* a nil *IndexSegment / *DataSegment

----------------------------------------------------------------------------
(* Helpers *)

Min(a, b) == IF a <= b THEN a ELSE b
Max(a, b) == IF a >= b THEN a ELSE b
SetMax(S) == CHOOSE x \in S : \A y \in S : y <= x
SetMin(S) == CHOOSE x \in S : \A y \in S : x <= y
Restrict(f, S) == [x \in S |-> f[x]]
Put(f, k, v) == [x \in (DOMAIN f) \cup {k} |-> IF x = k THEN v ELSE f[x]]

\* the payloads WriteObject is called with: length n, byte i of it is 10*n+i
Payload(n) == [i \in 1..n |-> 10 * n + i]
Payloads == {Payload(n) : n \in 0..MaxPayloadLen}

\* the configurations New is called with (IndexRecordSize*k+3, as the tests use)
Configs == {[IndexSegmentSize |-> k * IndexRecordSize + 3, DataSegmentSize |-> DataSegmentSize] :
              k \in 1..MaxIndexSlots}

----------------------------------------------------------------------------
(* IndexRecord *)

ZeroRecord == [RecordID |-> 0, DataSegmentOffset |-> 0, DataSegmentStartID |-> 0,
               DataSegmentEndID |-> 0, Size |-> 0, Purged |-> FALSE]

\* SetIndexRecordPurged: flags |= 0x01 on the slot's bytes
SetIndexRecordPurged(slot) == [slot EXCEPT !.Purged = TRUE]

\* IsIndexRecordPurged: flags & 0x01 != 0
IsIndexRecordPurged(slot) == slot.Purged

----------------------------------------------------------------------------
(* DataSegment *)

DataSegmentFlushMetadata(s) ==
    [s EXCEPT !.Metadata = [SegmentID |-> s.SegmentID, Size |-> s.Size, Cursor |-> s.Cursor]]

DataSegmentLoadMetadata(s) ==
    [s EXCEPT !.SegmentID = s.Metadata.SegmentID, !.Size = s.Metadata.Size,
              !.Cursor = s.Metadata.Cursor]

\* NewDataSegment on a file that does not exist: truncate, map, write the header
NewDataSegment(id, config) ==
    DataSegmentFlushMetadata(
        [SegmentID |-> id, Size |-> config.DataSegmentSize, Cursor |-> 0,
         Metadata |-> [SegmentID |-> 0, Size |-> 0, Cursor |-> 0],
         Records |-> [i \in 1..config.DataSegmentSize |-> 0]])

DataSegmentAvailableSize(s) == s.Size - s.Cursor
DataSegmentAvailable(s) == DataSegmentAvailableSize(s) > 0

\* mutant of Write: the bytes are copied to the start of the segment
DataSegmentWrite_AtStart(s, data) ==
    LET written == Min(Len(data), Max(Len(s.Records) - s.Cursor, 0))
    IN [seg |-> [s EXCEPT !.Records = [i \in 1..Len(s.Records) |->
                                         IF i <= written THEN data[i] ELSE s.Records[i]],
                          !.Cursor = s.Cursor + written],
        offset |-> 0, written |-> written]

\* mutant of Write: the cursor is advanced by the length of the payload
DataSegmentWrite_CursorByLen(s, data) ==
    LET offset == s.Cursor
        written == Min(Len(data), Max(Len(s.Records) - offset, 0))
    IN [seg |-> [s EXCEPT !.Records = [i \in 1..Len(s.Records) |->
                                         IF i > offset /\ i <= offset + written
                                         THEN data[i - offset] ELSE s.Records[i]],
                          !.Cursor = offset + Len(data)],
        offset |-> offset, written |-> written]

\* Write: copy(s.Records[offset:], data) at the old cursor, advance the cursor
DataSegmentWrite(s, data) ==
    LET offset == s.Cursor
        written == Min(Len(data), Max(Len(s.Records) - offset, 0))
    IN [seg |-> [s EXCEPT !.Records = [i \in 1..Len(s.Records) |->
                                         IF i > offset /\ i <= offset + written
                                         THEN data[i - offset] ELSE s.Records[i]],
                          !.Cursor = offset + written],
        offset |-> offset, written |-> written]

\* Read: 0 when offset >= Cursor; else copy(into, s.Records[offset:offset+len(into)]),
\* a slice expression that panics when it leaves the mapped records; n is len(into)
DataSegmentRead(s, n, offset) ==
    IF offset >= s.Cursor THEN [panic |-> FALSE, n |-> 0, bytes |-> << >>]
    ELSE IF offset < 0 \/ offset + n > Len(s.Records)
    THEN [panic |-> TRUE, n |-> 0, bytes |-> << >>]
    ELSE [panic |-> FALSE, n |-> n, bytes |-> SubSeq(s.Records, offset + 1, offset + n)]

\* Reader: the byte view [offset, offset+size) cut at the end of the segment
DataSegmentReader(s, offset, size) ==
    LET size1 == IF offset + size > s.Size THEN s.Size - offset ELSE size
        size2 == IF size1 > s.Size THEN s.Size ELSE size1
    IN [bytes |-> SubSeq(s.Records, offset + 1, offset + size2), limit |-> size2]

\* Close: flush the header, sync, close the file
DataSegmentClose(s) == DataSegmentFlushMetadata(s)

----------------------------------------------------------------------------
(* DataManager: Objects is the heap of DataSegment objects the manager can  *)
(* reach, Segments the keys of its segment map, CurrentSegment the id of    *)
(* the object its CurrentSegment pointer refers to, Files the data* files   *)
(* of the work directory.                                                   *)

DMCurrent(m) == m.Objects[m.CurrentSegment]

\* Rotate: create the next data segment and install it as current
DataManagerRotate(m, config) ==
    IF m.CurrentSegment = NoSegment
    THEN [m EXCEPT !.MinSegment = 0, !.MaxSegment = 0,
                   !.Objects = Put(m.Objects, 0, NewDataSegment(0, config)),
                   !.Segments = m.Segments \cup {0},
                   !.Files = m.Files \cup {0},
                   !.CurrentSegment = 0,
                   !.LoadedSegments = m.LoadedSegments + 1]
    ELSE LET id == DMCurrent(m).SegmentID + 1
         IN [m EXCEPT !.CurrentSegment = id,
                      !.Objects = Put(m.Objects, id, NewDataSegment(id, config)),
                      !.Segments = m.Segments \cup {id},
                      !.Files = m.Files \cup {id},
                      !.MaxSegment = id,
                      !.LoadedSegments = m.LoadedSegments + 1]

\* mutant of the loop of Write: DataSegmentOffset is stored at every iteration
RECURSIVE DataManagerWriteLoop_OffsetEachWrite(_, _, _, _, _)
DataManagerWriteLoop_OffsetEachWrite(m, config, data, written, rec) ==
    IF written >= Len(data) THEN [m |-> m, rec |-> rec]
    ELSE LET m1 == IF ~DataSegmentAvailable(DMCurrent(m)) THEN DataManagerRotate(m, config) ELSE m
             w == DataSegmentWrite(DMCurrent(m1), SubSeq(data, written + 1, Len(data)))
             m2 == [m1 EXCEPT !.Objects[m1.CurrentSegment] = w.seg]
         IN DataManagerWriteLoop_OffsetEachWrite(m2, config, data, written + w.written,
                                                 [rec EXCEPT !.DataSegmentOffset = w.offset])

\* the loop of Write: for written < dataLen { rotate if full; write what fits }
RECURSIVE DataManagerWriteLoop(_, _, _, _, _)
DataManagerWriteLoop(m, config, data, written, rec) ==
    IF written >= Len(data) THEN [m |-> m, rec |-> rec]
    ELSE LET m1 == IF ~DataSegmentAvailable(DMCurrent(m)) THEN DataManagerRotate(m, config) ELSE m
             w == DataSegmentWrite(DMCurrent(m1), SubSeq(data, written + 1, Len(data)))
             m2 == [m1 EXCEPT !.Objects[m1.CurrentSegment] = w.seg]
             rec1 == IF written = 0 THEN [rec EXCEPT !.DataSegmentOffset = w.offset] ELSE rec
         IN DataManagerWriteLoop(m2, config, data, written + w.written, rec1)

\* Write: store the payload, fill the record's DataSegmentStartID/Offset/EndID
DataManagerWrite(m, config, data, rec) ==
    LET m1 == IF ~DataSegmentAvailable(DMCurrent(m)) THEN DataManagerRotate(m, config) ELSE m
        rec1 == [rec EXCEPT !.DataSegmentStartID = DMCurrent(m1).SegmentID]
        r == DataManagerWriteLoop(m1, config, data, 0, rec1)
    IN [m |-> r.m, rec |-> [r.rec EXCEPT !.DataSegmentEndID = DMCurrent(r.m).SegmentID]]

SegmentMissing == [kind |-> "SegmentMissing"]
NotFound == [kind |-> "NotFound"]
Ok(bytes) == [kind |-> "ok", bytes |-> bytes]
Diverges == [kind |-> "Diverges"]   \* a view of length 0: the loop of Read makes no progress

\* mutant of the loop of Read: offset is not reset to 0 for the next segment
RECURSIVE DataManagerReadLoop_KeepOffset(_, _, _, _, _)
DataManagerReadLoop_KeepOffset(m, size, segID, offset, acc) ==
    IF size <= 0 THEN Ok(acc)
    ELSE IF segID \notin m.Segments THEN SegmentMissing
    ELSE LET r == DataSegmentReader(m.Objects[segID], offset, size)
         IN IF r.limit <= 0 THEN Diverges
            ELSE DataManagerReadLoop_KeepOffset(m, size - r.limit, segID + 1, offset,
                                                acc \o r.bytes)

\* the loop of Read: for size > 0 { load segment or fail; take its view }
RECURSIVE DataManagerReadLoop(_, _, _, _, _)
DataManagerReadLoop(m, size, segID, offset, acc) ==
    IF size <= 0 THEN Ok(acc)
    ELSE IF segID \notin m.Segments THEN SegmentMissing
    ELSE LET r == DataSegmentReader(m.Objects[segID], offset, size)
         IN IF r.limit <= 0 THEN Diverges
            ELSE DataManagerReadLoop(m, size - r.limit, segID + 1, 0, acc \o r.bytes)

\* Read: the record's bytes stitched from its data segments
DataManagerRead(m, rec) ==
    DataManagerReadLoop(m, rec.Size, rec.DataSegmentStartID, rec.DataSegmentOffset, << >>)

\* VacuumDataSegments, first loop: unlink and drop every segment not in use
VacuumUnlinkUnused(m, idsInUse) ==
    [m EXCEPT !.Segments = m.Segments \cap idsInUse,
              !.Files = m.Files \ (m.Segments \ idsInUse),
              !.Objects = Restrict(m.Objects, (m.Segments \cap idsInUse) \cup {m.CurrentSegment}),
              !.LoadedSegments = m.LoadedSegments - Cardinality(m.Segments \ idsInUse)]

\* VacuumDataSegments: if m.LoadedSegments == 0 { Rotate(); MaxSegment = 0 }
VacuumKeepOneSegment(m, config) ==
    IF m.LoadedSegments = 0
    THEN LET r == DataManagerRotate(m, config)
         IN [r EXCEPT !.MaxSegment = 0,
                      !.Objects = Restrict(r.Objects, r.Segments \cup {r.CurrentSegment})]
    ELSE m

\* VacuumDataSegments, last part: MaxSegment from the keys left, CurrentSegment if nil
VacuumMaxSegment(m) ==
    [m EXCEPT !.MaxSegment = IF m.Segments = {} THEN 0 ELSE Max(0, SetMax(m.Segments)),
              !.CurrentSegment = IF m.CurrentSegment = NoSegment
                                 THEN (IF m.Segments = {} THEN 0 ELSE Max(0, SetMax(m.Segments)))
                                 ELSE m.CurrentSegment]

\* VacuumDataSegments: unlink every segment not in use, keep at least one
DataManagerVacuumDataSegments(m, config, idsInUse) ==
    VacuumMaxSegment(VacuumKeepOneSegment(VacuumUnlinkUnused(m, idsInUse), config))

\* Close: close every segment of the map
DataManagerClose(m) ==
    [m EXCEPT !.Objects = [id \in DOMAIN m.Objects |->
                             IF id \in m.Segments THEN DataSegmentClose(m.Objects[id])
                             ELSE m.Objects[id]]]

\* Close when the Close of segment bad returns an error: the segments Range visited
\* before it (done) are closed, bad has flushed its header before its Sync failed,
\* and the loop returns without visiting the others
DataManagerCloseErr(m, done, bad) ==
    [m EXCEPT !.Objects = [id \in DOMAIN m.Objects |->
                             IF id \in done \cup {bad} THEN DataSegmentClose(m.Objects[id])
                             ELSE m.Objects[id]]]

\* NewDataManager: load the data* files of the directory, or create data0000
NewDataManager(files, objects, config) ==
    LET loaded == [id \in files |-> DataSegmentLoadMetadata(objects[id])]
        m == [MinSegment |-> IF files = {} THEN -1 ELSE SetMin(files),
              MaxSegment |-> IF files = {} THEN -1 ELSE SetMax(files),
              Objects |-> loaded, Segments |-> files, Files |-> files,
              LoadedSegments |-> Cardinality(files),
              CurrentSegment |-> IF files = {} THEN NoSegment ELSE SetMax(files)]
    IN IF files = {} THEN DataManagerRotate(m, config) ELSE m

----------------------------------------------------------------------------
(* IndexSegment: Records is the slot area of the mapped file, one element   *)
(* per whole 41-byte slot; Metadata is the mapped header.                   *)

IndexSegmentFlushMetadata(s) ==
    [s EXCEPT !.Metadata = [SegmentID |-> s.SegmentID, Size |-> s.Size,
                            LowerRecord |-> s.LowerRecord, UpperRecord |-> s.UpperRecord,
                            RecordsCount |-> s.RecordsCount, Cursor |-> s.Cursor,
                            Purged |-> s.Purged]]

\* mutant of LoadMetadata: UpperRecord read at the offset of LowerRecord
IndexSegmentLoadMetadata_UpperFromLower(s) ==
    [s EXCEPT !.SegmentID = s.Metadata.SegmentID, !.Size = s.Metadata.Size,
              !.LowerRecord = s.Metadata.LowerRecord, !.UpperRecord = s.Metadata.LowerRecord,
              !.RecordsCount = s.Metadata.RecordsCount, !.Cursor = s.Metadata.Cursor,
              !.Purged = s.Metadata.Purged]

IndexSegmentLoadMetadata(s) ==
    [s EXCEPT !.SegmentID = s.Metadata.SegmentID, !.Size = s.Metadata.Size,
              !.LowerRecord = s.Metadata.LowerRecord, !.UpperRecord = s.Metadata.UpperRecord,
              !.RecordsCount = s.Metadata.RecordsCount, !.Cursor = s.Metadata.Cursor,
              !.Purged = s.Metadata.Purged]

\* NewIndexSegment on a file that does not exist: truncate, map, write the header
NewIndexSegment(id, config) ==
    IndexSegmentFlushMetadata(
        [SegmentID |-> id, Size |-> config.IndexSegmentSize,
         LowerRecord |-> 0, UpperRecord |-> 0, RecordsCount |-> 0, Cursor |-> 0,
         Purged |-> FALSE,
         Metadata |-> [SegmentID |-> 0, Size |-> 0, LowerRecord |-> 0, UpperRecord |-> 0,
                       RecordsCount |-> 0, Cursor |-> 0, Purged |-> FALSE],
         Records |-> [k \in 1..(config.IndexSegmentSize \div IndexRecordSize) |-> ZeroRecord]])

\* s.Records[k*IndexRecordSize:] decoded, k counted from 0
SlotInRange(s, k) == k >= 0 /\ k < Len(s.Records)
SlotAt(s, k) == IF SlotInRange(s, k) THEN s.Records[k + 1] ELSE ZeroRecord

\* mutant of ContainsRecord: the ids below LowerRecord are contained too
ContainsRecord_NoLowerBound(s, id) ==
    IF s.RecordsCount = 0 THEN FALSE
    ELSE id <= s.UpperRecord

ContainsRecord(s, id) ==
    IF s.RecordsCount = 0 THEN FALSE
    ELSE id >= s.LowerRecord /\ id <= s.UpperRecord

\* LoadRecord: decode the slot at (id - LowerRecord) into rec; rec is left alone
\* when the segment does not contain id
LoadRecord(s, id, rec) ==
    IF ~ContainsRecord(s, id) THEN [ok |-> FALSE, rec |-> rec]
    ELSE [ok |-> TRUE, rec |-> SlotAt(s, id - s.LowerRecord)]

FitsRecord(s) == s.Cursor + IndexRecordSize <= s.Size

\* WriteRecord: encode rec at Cursor, update the header fields, flush the header
WriteRecord(s, rec) ==
    LET cur == s.Cursor
        k == cur \div IndexRecordSize
        s1 == [s EXCEPT !.Records = [j \in 1..Len(s.Records) |->
                                       IF j = k + 1 THEN rec ELSE s.Records[j]],
                        !.LowerRecord = IF cur = 0 THEN rec.RecordID ELSE s.LowerRecord,
                        !.Cursor = cur + IndexRecordSize,
                        !.UpperRecord = rec.RecordID,
                        !.RecordsCount = s.RecordsCount + 1]
    IN IndexSegmentFlushMetadata(s1)

\* mutant of the first statement of WriteRecord: the slot is not encoded
WriteRecordEncode_Skip(s, rec) == s

\* WriteRecord, rec.Write(s.Records[cur:]): the slot at Cursor is encoded
WriteRecordEncode(s, rec) ==
    [s EXCEPT !.Records = [j \in 1..Len(s.Records) |->
                             IF j = (s.Cursor \div IndexRecordSize) + 1 THEN rec
                             ELSE s.Records[j]]]

\* WriteRecord, if cur == 0 { LowerRecord.Store(id) }; Cursor.Add(IndexRecordSize)
WriteRecordCursor(s, rec) ==
    [s EXCEPT !.LowerRecord = IF s.Cursor = 0 THEN rec.RecordID ELSE s.LowerRecord,
              !.Cursor = s.Cursor + IndexRecordSize]

\* WriteRecord, UpperRecord.Store(id)
WriteRecordUpper(s, rec) == [s EXCEPT !.UpperRecord = rec.RecordID]

\* WriteRecord, RecordsCount.Add(1); FlushMetadata()
WriteRecordCount(s) == IndexSegmentFlushMetadata([s EXCEPT !.RecordsCount = s.RecordsCount + 1])

\* the count loop of PurgeFrom: for i := lr; i <= Upper; i++ { LoadRecord(i, rec); ... }
RECURSIVE PurgeCount(_, _, _, _)
PurgeCount(s, i, rec, count) ==
    IF i > s.UpperRecord THEN count
    ELSE LET r == LoadRecord(s, i, rec).rec
         IN PurgeCount(s, i + 1, r, IF ~r.Purged THEN count + 1 ELSE count)

\* the last loop of PurgeFrom: the first i whose slot cur is not flagged purged
RECURSIVE PurgeLower(_, _, _)
PurgeLower(s, i, cur) ==
    IF i > s.UpperRecord THEN s.LowerRecord
    ELSE IF ~IsIndexRecordPurged(SlotAt(s, cur)) THEN i
    ELSE PurgeLower(s, i + 1, cur + 1)

\* PurgeFrom, first loop: for i := lr; i <= id; i++ { SetIndexRecordPurged(slot cur); cur++ }
PurgeFlagSlots(s, id) ==
    [s EXCEPT !.Records = [j \in 1..Len(s.Records) |->
                             IF j - 1 <= id - s.LowerRecord
                             THEN SetIndexRecordPurged(s.Records[j])
                             ELSE s.Records[j]]]

\* PurgeFrom: store the count of records not purged; mark and flush the segment at 0
PurgeRecount(s) ==
    LET count == PurgeCount(s, s.LowerRecord, ZeroRecord, 0)
    IN IF count = 0 /\ ~s.Purged
       THEN IndexSegmentFlushMetadata([s EXCEPT !.RecordsCount = count, !.Purged = TRUE])
       ELSE [s EXCEPT !.RecordsCount = count]

\* PurgeFrom, the end: LowerRecord is -1 for a purged segment, else the loop's result
PurgeMoveLower(s) ==
    IF s.Purged THEN [s EXCEPT !.LowerRecord = -1]
    ELSE [s EXCEPT !.LowerRecord = PurgeLower(s, s.LowerRecord, 0)]

\* PurgeFrom: flag the records up to id as purged, recount, move LowerRecord
PurgeFrom(s, id) ==
    IF ~FitsRecord(s) /\ id = s.UpperRecord
    THEN IndexSegmentFlushMetadata([s EXCEPT !.Purged = TRUE])
    ELSE PurgeMoveLower(PurgeRecount(PurgeFlagSlots(s, id)))

\* Close: sync the mapping, close the file
IndexSegmentClose(s) == s

----------------------------------------------------------------------------
(* Index: Segments is its segment map (id -> IndexSegment object),          *)
(* CurrentSegment the id its CurrentSegment pointer refers to (NoSegment    *)
(* for nil), Files the index* files of the work directory.                  *)

IndexCurrent(i) == i.Segments[i.CurrentSegment]

\* Rotate: create the next index segment and install it as current
IndexRotate(i, config) ==
    IF i.CurrentSegment = NoSegment
    THEN [i EXCEPT !.MinSegment = 0, !.MaxSegment = 0,
                   !.Segments = Put(i.Segments, 0, NewIndexSegment(0, config)),
                   !.Files = i.Files \cup {0},
                   !.MaxRecord = -1,
                   !.CurrentSegment = 0,
                   !.LoadedSegments = i.LoadedSegments + 1]
    ELSE LET id == IndexCurrent(i).SegmentID + 1
         IN [i EXCEPT !.CurrentSegment = id,
                      !.Segments = Put(i.Segments, id, NewIndexSegment(id, config)),
                      !.Files = i.Files \cup {id},
                      !.MaxSegment = id,
                      !.LoadedSegments = i.LoadedSegments + 1]

\* Append: next record id, payload to the data layer, slot to the current segment
IndexAppend(i, m, config, data) ==
    LET i1 == IF ~FitsRecord(IndexCurrent(i)) THEN IndexRotate(i, config) ELSE i
        recID == i1.MaxRecord + 1
        rec == [ZeroRecord EXCEPT !.RecordID = recID, !.Size = Len(data), !.Purged = FALSE]
        w == DataManagerWrite(m, config, data, rec)
        i2 == [i1 EXCEPT !.MaxRecord = recID,
                         !.Segments[i1.CurrentSegment] = WriteRecord(IndexCurrent(i1), w.rec)]
    IN [i |-> i2, m |-> w.m, rec |-> w.rec]

\* Write up to its loop: rotate when the current segment is full, set DataSegmentStartID
DataManagerWriteBegin(m, config, rec) ==
    LET m1 == IF ~DataSegmentAvailable(DMCurrent(m)) THEN DataManagerRotate(m, config) ELSE m
    IN [m |-> m1, rec |-> [rec EXCEPT !.DataSegmentStartID = DMCurrent(m1).SegmentID]]

\* one iteration of the loop of Write: rotate when full, write what fits
DataManagerWriteStep(m, config, data, written, rec) ==
    LET m1 == IF ~DataSegmentAvailable(DMCurrent(m)) THEN DataManagerRotate(m, config) ELSE m
        w == DataSegmentWrite(DMCurrent(m1), SubSeq(data, written + 1, Len(data)))
    IN [m |-> [m1 EXCEPT !.Objects[m1.CurrentSegment] = w.seg],
        rec |-> IF written = 0 THEN [rec EXCEPT !.DataSegmentOffset = w.offset] ELSE rec,
        written |-> written + w.written]

\* Write after its loop: set DataSegmentEndID
DataManagerWriteEnd(m, rec) == [rec EXCEPT !.DataSegmentEndID = DMCurrent(m).SegmentID]

\* the loop of Write when the first Rotate it needs returns an error: what was
\* written before stays written, Write returns the error
RECURSIVE DataManagerWriteLoopErr(_, _, _, _)
DataManagerWriteLoopErr(m, data, written, rec) ==
    IF written >= Len(data) THEN [m |-> m, rec |-> rec, err |-> FALSE]
    ELSE IF ~DataSegmentAvailable(DMCurrent(m)) THEN [m |-> m, rec |-> rec, err |-> TRUE]
    ELSE LET w == DataSegmentWrite(DMCurrent(m), SubSeq(data, written + 1, Len(data)))
             m2 == [m EXCEPT !.Objects[m.CurrentSegment] = w.seg]
             rec1 == IF written = 0 THEN [rec EXCEPT !.DataSegmentOffset = w.offset] ELSE rec
         IN DataManagerWriteLoopErr(m2, data, written + w.written, rec1)

\* Write when NewDataSegment cannot create the next file, so that the first Rotate
\* of the call returns an error and leaves the manager as it is
DataManagerWriteErr(m, data, rec) ==
    IF ~DataSegmentAvailable(DMCurrent(m)) THEN [m |-> m, rec |-> rec, err |-> TRUE]
    ELSE LET rec1 == [rec EXCEPT !.DataSegmentStartID = DMCurrent(m).SegmentID]
             r == DataManagerWriteLoopErr(m, data, 0, rec1)
         IN IF r.err THEN r
            ELSE [m |-> r.m, rec |-> [r.rec EXCEPT !.DataSegmentEndID = DMCurrent(r.m).SegmentID],
                  err |-> FALSE]

\* mutant of Append under a failing rotation: MaxRecord is stored before dm.Write
IndexAppendErr_StoreFirst(i, m, config, data) ==
    LET i1 == IF ~FitsRecord(IndexCurrent(i)) THEN IndexRotate(i, config) ELSE i
        recID == i1.MaxRecord + 1
        rec == [ZeroRecord EXCEPT !.RecordID = recID, !.Size = Len(data), !.Purged = FALSE]
        w == DataManagerWriteErr(m, data, rec)
    IN IF w.err THEN [i |-> [i1 EXCEPT !.MaxRecord = recID], m |-> w.m, rec |-> w.rec, err |-> TRUE]
       ELSE [i |-> [i1 EXCEPT !.MaxRecord = recID,
                              !.Segments[i1.CurrentSegment] = WriteRecord(IndexCurrent(i1), w.rec)],
             m |-> w.m, rec |-> w.rec, err |-> FALSE]

\* Append when the data layer cannot create a segment: the index has rotated if it
\* had to; when dm.Write returns the error, Append returns it
IndexAppendErr(i, m, config, data) ==
    LET i1 == IF ~FitsRecord(IndexCurrent(i)) THEN IndexRotate(i, config) ELSE i
        recID == i1.MaxRecord + 1
        rec == [ZeroRecord EXCEPT !.RecordID = recID, !.Size = Len(data), !.Purged = FALSE]
        w == DataManagerWriteErr(m, data, rec)
    IN IF w.err THEN [i |-> i1, m |-> w.m, rec |-> w.rec, err |-> TRUE]
       ELSE [i |-> [i1 EXCEPT !.MaxRecord = recID,
                              !.Segments[i1.CurrentSegment] = WriteRecord(IndexCurrent(i1), w.rec)],
             m |-> w.m, rec |-> w.rec, err |-> FALSE]

\* SegmentForID ranges over the segment map (a sync.Map, in no fixed order) and
\* returns the first segment containing id: any of these
SegmentsForID(i, id) == {k \in DOMAIN i.Segments : ContainsRecord(i.Segments[k], id)}

\* LookupMeta: the record LoadRecord decodes from the segment SegmentForID returned;
\* the set of its possible outcomes
LookupMeta(i, id) ==
    IF SegmentsForID(i, id) = {} THEN {NotFound}
    ELSE {[kind |-> "ok", rec |-> LoadRecord(i.Segments[k], id, ZeroRecord).rec] :
            k \in SegmentsForID(i, id)}

\* IsEmpty: with only segment 0, whether the current segment counts no record; else
\* whether every segment of the map is marked Purged
IsEmpty(i) ==
    IF i.MinSegment = 0 /\ i.MaxSegment = 0
    THEN IndexCurrent(i).RecordsCount = 0
    ELSE \A k \in DOMAIN i.Segments : i.Segments[k].Purged

\* mutant of the loop of CountObjects: only the segment after seg is added
CountFollowing_OneSegment(i, segID, total) ==
    IF segID \notin DOMAIN i.Segments THEN total
    ELSE total + i.Segments[segID].RecordsCount

\* the loop of CountObjects: for { seg = Segments[seg.SegmentID+1]; break if missing;
\* total += seg.RecordsCount }
RECURSIVE CountFollowing(_, _, _)
CountFollowing(i, segID, total) ==
    IF segID \notin DOMAIN i.Segments THEN total
    ELSE CountFollowing(i, segID + 1, total + i.Segments[segID].RecordsCount)

\* CountObjects: 0 when no segment contains id, else UpperRecord - id of the segment
\* SegmentForID returned plus the RecordsCount of the segments after it, plus one when
\* inclusive; the set of its possible results
CountObjects(i, id, inclusive) ==
    IF SegmentsForID(i, id) = {} THEN {0}
    ELSE {CountFollowing(i, i.Segments[k].SegmentID + 1, i.Segments[k].UpperRecord - id)
            + (IF inclusive THEN 1 ELSE 0) : k \in SegmentsForID(i, id)}

\* ReadRecord: delegate to the data manager
ReadRecord(m, rec) == DataManagerRead(m, rec)

\* the walk of VacuumObjects over the segments below seg: segID--, until one is missing
RECURSIVE SegmentsBelow(_, _)
SegmentsBelow(i, segID) ==
    IF segID \notin DOMAIN i.Segments THEN {}
    ELSE {segID} \cup SegmentsBelow(i, segID - 1)

\* the scan of one segment in VacuumObjects: for i := minID; i <= maxID; i++
\* { seg.LoadRecord(i, rec); skip if rec.Purged; mark Start..End in use }
RECURSIVE InUseOfSegment(_, _, _, _)
InUseOfSegment(s, id, rec, acc) ==
    IF id > s.UpperRecord THEN acc
    ELSE LET r == LoadRecord(s, id, rec).rec
         IN InUseOfSegment(s, id + 1, r,
                IF r.Purged THEN acc
                ELSE acc \cup (r.DataSegmentStartID .. r.DataSegmentEndID))

\* drsInUse: the data segments referenced from the segments not marked Purged
DataSegmentsInUse(i) ==
    UNION {InUseOfSegment(i.Segments[k], i.Segments[k].LowerRecord, ZeroRecord, {}) :
             k \in {j \in DOMAIN i.Segments : ~i.Segments[j].Purged}}

\* VacuumObjects: the segment k purged from, and seg.Purged = true; seg.FlushMetadata()
\* on every segment below it
VacuumMarkBelow(i, k, purged, below) ==
    [i EXCEPT !.Segments = [j \in DOMAIN i.Segments |->
        IF j \in below
        THEN IndexSegmentFlushMetadata([(IF j = k THEN purged ELSE i.Segments[j])
                                           EXCEPT !.Purged = TRUE])
        ELSE IF j = k THEN purged ELSE i.Segments[j]]]

\* VacuumObjects: unlink and drop the segments marked for removal
VacuumRemoveSegments(i, segsToRemove) ==
    [i EXCEPT !.Segments = Restrict(i.Segments, DOMAIN i.Segments \ segsToRemove),
              !.Files = i.Files \ segsToRemove,
              !.LoadedSegments = i.LoadedSegments - Cardinality(segsToRemove),
              !.CurrentSegment = IF i.CurrentSegment \in segsToRemove
                                 THEN NoSegment ELSE i.CurrentSegment]

\* VacuumObjects: if i.LoadedSegments == 0 { Rotate(); MaxSegment = 0 }
VacuumKeepOneIndex(i, config) ==
    IF i.LoadedSegments = 0
    THEN [IndexRotate(i, config) EXCEPT !.MaxSegment = 0]
    ELSE i

\* VacuumObjects: MinSegment and MaxSegment from the keys left, CurrentSegment if nil
VacuumBounds(i) ==
    [i EXCEPT !.MaxSegment = Max(0, SetMax(DOMAIN i.Segments)),
              !.MinSegment = SetMin(DOMAIN i.Segments),
              !.CurrentSegment = IF i.CurrentSegment = NoSegment
                                 THEN Max(0, SetMax(DOMAIN i.Segments))
                                 ELSE i.CurrentSegment]

\* VacuumObjects, the end: MaxRecord is -1 when the current segment holds no record,
\* else the current segment's RecordsCount
VacuumMaxRecord(i) ==
    [i EXCEPT !.MaxRecord = IF IndexCurrent(i).RecordsCount = 0
                            THEN -1 ELSE IndexCurrent(i).RecordsCount]

\* VacuumObjects after the purge and the marking: vacuum the data segments not in
\* use, then remove the index segments
VacuumMarked(i, m, config, segsToRemove) ==
    [i |-> VacuumMaxRecord(VacuumBounds(VacuumKeepOneIndex(
               VacuumRemoveSegments(i, segsToRemove), config))),
     m |-> DataManagerVacuumDataSegments(m, config, DataSegmentsInUse(i))]

\* VacuumObjects after seg.PurgeFrom(id): below are the segments under seg
VacuumPurged(i, m, config, k, purged, below) ==
    VacuumMarked(VacuumMarkBelow(i, k, purged, below), m, config,
                 (IF purged.Purged THEN {k} ELSE {}) \cup below)

\* VacuumObjects once SegmentForID(id) returned segment k (id already normalized)
VacuumFrom(i, m, config, id, k) ==
    VacuumPurged(i, m, config, k, PurgeFrom(i.Segments[k], id),
                 SegmentsBelow(i, i.Segments[k].SegmentID - 1))

\* Close: close the data manager, then every index segment
\* Close when the Close of index segment bad returns an error, after the data manager
\* was closed: the segments Range visited before it (done) are closed
IndexCloseErr(i, done, bad) ==
    [i EXCEPT !.Segments = [k \in DOMAIN i.Segments |->
                              IF k \in done \cup {bad} THEN IndexSegmentClose(i.Segments[k])
                              ELSE i.Segments[k]]]

IndexClose(i) == [i EXCEPT !.Segments = [k \in DOMAIN i.Segments |-> IndexSegmentClose(i.Segments[k])]]

\* the loop of NewIndex over the sorted segment ids
RECURSIVE NewIndexLoad(_, _, _)
NewIndexLoad(i, ids, objects) ==
    IF ids = {} THEN i
    ELSE LET id == SetMin(ids)
             segment == IndexSegmentLoadMetadata(objects[id])
             i1 == [i EXCEPT !.MinSegment = IF id > i.MinSegment \/ i.MinSegment = -1
                                            THEN id ELSE i.MinSegment,
                             !.Segments = Put(i.Segments, id, segment),
                             !.LoadedSegments = i.LoadedSegments + 1]
             i2 == IF i1.CurrentSegment = NoSegment \/ id > IndexCurrent(i).SegmentID
                   THEN [i1 EXCEPT !.CurrentSegment = id,
                                   !.MaxRecord = segment.UpperRecord,
                                   !.MaxSegment = segment.SegmentID]
                   ELSE i1
         IN NewIndexLoad(i2, ids \ {id}, objects)

\* NewIndex: load the index* files of the directory, or create index0000
NewIndex(files, objects, config) ==
    LET i0 == [MinSegment |-> -1, MaxSegment |-> -1, MaxRecord |-> 0,
               Segments |-> << >>, LoadedSegments |-> 0,
               CurrentSegment |-> NoSegment, Files |-> files]
        i1 == NewIndexLoad(i0, files, objects)
    IN IF files = {} THEN IndexRotate(i1, config) ELSE i1

----------------------------------------------------------------------------
(* The WAL facade *)

\* CurrentRecordID: max(MaxRecord, 0)
CurrentRecordID(i) == Max(i.MaxRecord, 0)

\* ReadObject: LookupMeta, NotFound for a purged record, else the record's bytes;
\* the set of its possible outcomes
ReadObject(i, m, id) ==
    {IF r.kind = "NotFound" THEN NotFound
     ELSE IF r.rec.Purged THEN NotFound
     ELSE ReadRecord(m, r.rec) : r \in LookupMeta(i, id)}

\* a cursor of ReadObjects run to its first false Next: each Next is a LookupMeta of
\* wants, each Read a ReadRecord of the record Next loaded; the set of possible runs
RECURSIVE CursorRuns(_, _, _)
CursorRuns(i, m, wants) ==
    UNION {IF r.kind = "NotFound" THEN {<< >>}
           ELSE {<<[id |-> wants, read |-> ReadRecord(m, r.rec)]>> \o rest :
                   rest \in CursorRuns(i, m, wants + 1)} : r \in LookupMeta(i, wants)}

\* ReadObjects: the cursor starts at id, or at id+1 when not inclusive
ReadObjects(i, m, id, inclusive) == CursorRuns(i, m, IF inclusive THEN id ELSE id + 1)

\* Index.ReadObjects: the cursor object, wants = id, or id+1 when not inclusive
NewCursor(id, inclusive) ==
    [wants |-> IF inclusive THEN id ELSE id + 1, record |-> ZeroRecord]

\* mutant of indexCursor.Next: wants is advanced also when LookupMeta fails
CursorNext_AdvanceOnMiss(i, c) ==
    {IF r.kind = "NotFound" THEN [ok |-> FALSE, c |-> [c EXCEPT !.wants = c.wants + 1]]
     ELSE [ok |-> TRUE, c |-> [wants |-> c.wants + 1, record |-> r.rec]] :
        r \in LookupMeta(i, c.wants)}

\* indexCursor.Next: LookupMeta(wants, &record); false on an error, else wants++ and
\* true; the set of its possible outcomes
CursorNext(i, c) ==
    {IF r.kind = "NotFound" THEN [ok |-> FALSE, c |-> c]
     ELSE [ok |-> TRUE, c |-> [wants |-> c.wants + 1, record |-> r.rec]] :
        r \in LookupMeta(i, c.wants)}

\* indexCursor.Read: ReadRecord of the record the last Next loaded
CursorRead(m, c) == ReadRecord(m, c.record)

\* mutant of indexCursor.Offset: wants
CursorOffset_Wants(c) == c.wants

\* indexCursor.Offset: wants - 1
CursorOffset(c) == c.wants - 1

----------------------------------------------------------------------------
(* Flock: fl.path is the inode the lock path names (0: no file), fl.holder  *)
(* the instance whose open file holds the flock(2) lock of each inode (0:   *)
(* none), fl.inst the Flock instances with the inode their file is open on. *)

\* flock.New: open the file at the path, creating it when it is not there
FlockNew(fl, f) ==
    LET inode == IF fl.path = 0 THEN fl.inodes + 1 ELSE fl.path
    IN [fl EXCEPT !.path = inode,
                  !.inodes = IF fl.path = 0 THEN fl.inodes + 1 ELSE fl.inodes,
                  !.inst[f] = [made |-> TRUE, inode |-> inode, locked |-> FALSE,
                               closed |-> FALSE, removing |-> FALSE, held |-> FALSE,
                               reopened |-> \E g \in 1..MaxFlocks :
                                              /\ fl.inst[g].closed /\ fl.inst[g].held
                                              /\ fl.inst[g].inode = inode]]

\* mutant of flock.Lock: no AlreadyLockedErr case
FlockLock_NoLockedCase(fl, f) ==
    IF fl.inst[f].closed THEN [fl |-> fl, err |-> "ClosedErr"]
    ELSE IF fl.holder[fl.inst[f].inode] \in {0, f}
    THEN [fl |-> [fl EXCEPT !.holder[fl.inst[f].inode] = f,
                            !.inst[f].locked = TRUE, !.inst[f].held = TRUE],
          err |-> "nil"]
    ELSE [fl |-> fl, err |-> "CannotLockErr"]

\* flock.Lock: ClosedErr, AlreadyLockedErr, else flock(fd, LOCK_EX|LOCK_NB)
FlockLock(fl, f) ==
    IF fl.inst[f].closed THEN [fl |-> fl, err |-> "ClosedErr"]
    ELSE IF fl.inst[f].locked THEN [fl |-> fl, err |-> "AlreadyLockedErr"]
    ELSE IF fl.holder[fl.inst[f].inode] \in {0, f}
    THEN [fl |-> [fl EXCEPT !.holder[fl.inst[f].inode] = f,
                            !.inst[f].locked = TRUE, !.inst[f].held = TRUE],
          err |-> "nil"]
    ELSE [fl |-> fl, err |-> "CannotLockErr"]

\* flock.unlock: nothing when closed or not locked, else flock(fd, LOCK_UN)
FlockUnlockFd(fl, f) ==
    IF fl.inst[f].closed \/ ~fl.inst[f].locked THEN fl
    ELSE [fl EXCEPT !.holder[fl.inst[f].inode] = 0, !.inst[f].locked = FALSE]

\* flock.Unlock: ClosedErr, NotLockedErr, else unlock
FlockUnlock(fl, f) ==
    IF fl.inst[f].closed THEN [fl |-> fl, err |-> "ClosedErr"]
    ELSE IF ~fl.inst[f].locked THEN [fl |-> fl, err |-> "NotLockedErr"]
    ELSE [fl |-> FlockUnlockFd(fl, f), err |-> "nil"]

\* mutant of flock.close: the file is marked closed, the lock is not released
FlockClose_KeepLock(fl, f) ==
    IF fl.inst[f].closed THEN [fl |-> fl, err |-> "ClosedErr"]
    ELSE [fl |-> [fl EXCEPT !.inst[f].closed = TRUE], err |-> "nil"]

\* flock.Close / flock.close: ClosedErr, else unlock, close the file, closed = true
FlockClose(fl, f) ==
    IF fl.inst[f].closed THEN [fl |-> fl, err |-> "ClosedErr"]
    ELSE [fl |-> [FlockUnlockFd(fl, f) EXCEPT !.inst[f].closed = TRUE], err |-> "nil"]

\* flock.Remove up to os.Remove: close; its error (never os.ErrClosed) is returned
FlockRemoveClose(fl, f) ==
    LET r == FlockClose(fl, f)
    IN IF r.err # "nil" THEN r
       ELSE [fl |-> [r.fl EXCEPT !.inst[f].removing = TRUE], err |-> "nil"]

\* flock.Remove, os.Remove(f.name): the path names no file any more
FlockRemoveUnlink(fl, f) ==
    [fl EXCEPT !.path = 0, !.inst[f].removing = FALSE]

----------------------------------------------------------------------------
(* State *)

VARIABLES
    config,     \* the Config the WAL is opened with
    open,       \* whether a WAL instance is open on the work directory
    index,      \* the Index (with its segment objects and the index* files)
    dm,         \* the DataManager (with its segment objects and the data* files)
    hist,       \* history: the successful WriteObject calls, in order: the id assigned,
                \* the payload, the index record filled in, and the bytes that were left
                \* in the current data segment when the call was made
    vacMax,     \* history: the highest normalized id VacuumRecords was called with, or -1
    last,       \* history: the last call made
    reopen,     \* history: what the log showed at the last Close
    calls,      \* history: the number of VacuumRecords and of Close calls made
    cursor,     \* the cursor a ReadObjects call returned (c), and the history of its use
    flock,      \* the lock file of the work directory and the Flock instances on it
    fail,       \* history: the WriteObject calls that failed in the data layer: their
                \* number, the bytes the last of them wrote before it failed and whether
                \* the index rotated for it
    closing,    \* history: whether a Close returned an error, and the data and index
                \* segments whose Close it had called by then
    race,        \* the calls in flight on one open WAL: the holder of the Index write
                \* mutex, each writer's position in Append with its locals, the
                \* position of one reader in ReadObject with its locals; history:
                \* whether a VacuumObjects ran during an Append (overlap), the writer
                \* whose Append returned last, whether two writers' calls returned one
                \* after the other (handoff)
    iseg,        \* one IndexSegment driven on its own: the object, the first id it is
                \* given, the last call on it and the call's id; history: the
                \* in-memory LowerRecord and RecordsCount when it was last closed
    dseg        \* one DataSegment driven on its own: the object, the last call on it
                \* with its arguments and results; history: the object before the call

vars == <<config, open, index, dm, hist, vacMax, last, reopen, calls, cursor, flock, fail, closing, race, iseg, dseg>>

\* the slots written to a loaded segment
WrittenSlots(s) == {s.Records[k] : k \in 1..Min(s.Cursor \div IndexRecordSize, Len(s.Records))}

\* the index records that are live: written, not flagged purged, in a segment not purged
LiveRecords(i) ==
    UNION {{r \in WrittenSlots(i.Segments[k]) : ~r.Purged} :
             k \in {j \in DOMAIN i.Segments : ~i.Segments[j].Purged}}

WrittenIDs == {hist[n].id : n \in 1..Len(hist)}

\* the bytes last written under record id R
WrittenUnder(R) ==
    hist[SetMax({n \in 1..Len(hist) : hist[n].id = R})].data

\* no ReadObjects call made yet
NoCursor ==
    [made |-> FALSE, c |-> NewCursor(0, TRUE), id |-> 0, inclusive |-> TRUE,
     start |-> 0, startLen |-> 0, run |-> << >>,
     ok |-> "none", prevOk |-> "none", prevWants |-> 0, missLen |-> 0]

\* no lock file in the work directory, no Flock instance created
\* no call in flight
IdleAppend == [pc |-> "idle", data |-> << >>, rec |-> ZeroRecord, written |-> 0, avail |-> 0,
               prevCur |-> 0]
IdleRead == [pc |-> "idle", id |-> 0, seg |-> NoSegment, detached |-> FALSE,
             obj |-> ZeroRecord, loaded |-> FALSE, rec |-> ZeroRecord, res |-> NotFound,
             known |-> FALSE]
NoRace == [writeMu |-> 0, app |-> [w \in 1..MaxWriters |-> IdleAppend], rd |-> IdleRead,
           overlap |-> FALSE, prevBy |-> 0, handoff |-> FALSE]

NoFlocks ==
    [inst |-> [f \in 1..MaxFlocks |->
                 [made |-> FALSE, inode |-> 0, locked |-> FALSE, closed |-> FALSE,
                  removing |-> FALSE, held |-> FALSE, reopened |-> FALSE]],
     path |-> 0,
     holder |-> [n \in 1..MaxFlocks |-> 0],
     inodes |-> 0,
     last |-> [op |-> "none", f |-> 0, err |-> "nil", locked |-> FALSE, closed |-> FALSE,
               held |-> FALSE, same |-> TRUE]]

\* no DataSegment object yet
NoDataSegment ==
    [made |-> FALSE, s |-> NewDataSegment(0, [IndexSegmentSize |-> 0, DataSegmentSize |-> 0]),
     before |-> NewDataSegment(0, [IndexSegmentSize |-> 0, DataSegmentSize |-> 0]),
     op |-> "none", data |-> << >>, len |-> 0, offset |-> 0, written |-> 0,
     read |-> [panic |-> FALSE, n |-> 0, bytes |-> << >>]]

\* no IndexSegment object yet
NoIndexSegment ==
    [made |-> FALSE, s |-> NewIndexSegment(0, [IndexSegmentSize |-> 0, DataSegmentSize |-> DataSegmentSize]),
     first |-> 0, op |-> "none", id |-> -1, lower |-> 0, count |-> 0]

Init ==
    /\ config \in Configs
    /\ open = TRUE
    /\ dm = NewDataManager({}, << >>, config)
    /\ index = NewIndex({}, << >>, config)
    /\ hist = << >>
    /\ vacMax = -1
    /\ last = [op |-> "new", id |-> -1, prevCur |-> 0, prevOp |-> "none", found |-> FALSE]
    /\ reopen = [cur |-> 0, empty |-> TRUE, runs |-> {<< >>}]
    /\ calls = [vacuum |-> 0, close |-> 0]
    /\ cursor = NoCursor
    /\ flock = NoFlocks
    /\ fail = [count |-> 0, bytes |-> 0, rotated |-> FALSE]
    /\ closing = [failed |-> FALSE, layer |-> "none", data |-> {}, index |-> {}]
    /\ race = NoRace
    /\ iseg = NoIndexSegment
    /\ dseg = NoDataSegment

\* the configurations whose DataSegmentSize is below the longest payload too
DataConfigs == {[IndexSegmentSize |-> k * IndexRecordSize + 3, DataSegmentSize |-> d] :
                  k \in 1..MaxIndexSlots, d \in 1..DataSegmentSize}

\* New on an empty work directory, with any of DataConfigs
InitData ==
    /\ config \in DataConfigs
    /\ open = TRUE
    /\ dm = NewDataManager({}, << >>, config)
    /\ index = NewIndex({}, << >>, config)
    /\ hist = << >>
    /\ vacMax = -1
    /\ last = [op |-> "new", id |-> -1, prevCur |-> 0, prevOp |-> "none", found |-> FALSE]
    /\ reopen = [cur |-> 0, empty |-> TRUE, runs |-> {<< >>}]
    /\ calls = [vacuum |-> 0, close |-> 0]
    /\ cursor = NoCursor
    /\ flock = NoFlocks
    /\ fail = [count |-> 0, bytes |-> 0, rotated |-> FALSE]
    /\ closing = [failed |-> FALSE, layer |-> "none", data |-> {}, index |-> {}]
    /\ race = NoRace
    /\ iseg = NoIndexSegment
    /\ dseg = NoDataSegment

\* wal.WriteObject(data)
WriteObject(data) ==
    /\ open
    /\ Len(hist) < MaxWrites
    /\ LET r == IndexAppend(index, dm, config, data)
       IN /\ index' = r.i
          /\ dm' = r.m
          /\ hist' = Append(hist, [id |-> r.rec.RecordID, data |-> data, rec |-> r.rec,
                                   avail |-> DataSegmentAvailableSize(DMCurrent(dm))])
          /\ last' = [op |-> "write", id |-> r.rec.RecordID,
                      prevCur |-> CurrentRecordID(index), prevOp |-> last.op,
                      found |-> FALSE]
    /\ UNCHANGED <<config, open, vacMax, reopen, calls, cursor, flock, fail, closing, race, iseg, dseg>>

\* wal.WriteObject(data) while no data segment can be created: the call returns the
\* error of Append when the payload needs a rotation, and is not made otherwise
WriteObjectFails(data) ==
    /\ open
    /\ fail.count < MaxFailures
    /\ LET r == IndexAppendErr(index, dm, config, data)
       IN /\ r.err
          /\ index' = r.i
          /\ dm' = r.m
          /\ fail' = [count |-> fail.count + 1,
                      bytes |-> DMCurrent(r.m).Cursor - DMCurrent(dm).Cursor,
                      rotated |-> r.i.CurrentSegment # index.CurrentSegment]
          /\ last' = [op |-> "writeFailed", id |-> r.rec.RecordID,
                      prevCur |-> CurrentRecordID(index), prevOp |-> last.op,
                      found |-> FALSE]
    /\ UNCHANGED <<config, open, hist, vacMax, reopen, calls, cursor, flock, closing, race, iseg, dseg>>

\* mutant of writeMu.Lock(): the mutex is taken whoever holds it
MutexFree_Always(mu) == TRUE

\* writeMu.Lock() returns when no goroutine holds the mutex
MutexFree(mu) == mu = 0

\* mutant of the head of VacuumObjects: an id no segment contains is vacuumed from
\* the current segment
VacuumTargets_ElseCurrent(i, norm) ==
    IF norm < 0 THEN {}
    ELSE IF SegmentsForID(i, norm) = {} THEN {i.CurrentSegment}
    ELSE SegmentsForID(i, norm)

\* the head of VacuumObjects: nothing to do for a negative normalized id, else the
\* segment SegmentForID returns (any of these), nothing to do when there is none
VacuumTargets(i, norm) ==
    IF norm < 0 THEN {} ELSE SegmentsForID(i, norm)

\* what the steps of the calls in flight leave alone
RaceUnchanged == UNCHANGED <<config, open, vacMax, reopen, calls, cursor, flock, fail, closing, iseg, dseg>>

\* Append by writer w up to dm.Write: take the write mutex, rotate the index when the
\* current segment is full, fill in the record
AppendBegin(w, data) ==
    /\ open
    /\ race.app[w].pc = "idle"
    /\ Len(hist) + Cardinality({v \in 1..MaxWriters : race.app[v].pc # "idle"}) < MaxWrites
    /\ MutexFree(race.writeMu)
    /\ LET i1 == IF ~FitsRecord(IndexCurrent(index)) THEN IndexRotate(index, config) ELSE index
           rec == [ZeroRecord EXCEPT !.RecordID = i1.MaxRecord + 1, !.Size = Len(data),
                                     !.Purged = FALSE]
       IN /\ index' = i1
          /\ race' = [race EXCEPT !.writeMu = w,
                                  !.app[w] = [pc |-> "write", data |-> data, rec |-> rec,
                                              written |-> 0,
                                              avail |-> DataSegmentAvailableSize(DMCurrent(dm)),
                                              prevCur |-> CurrentRecordID(index)]]
    /\ UNCHANGED <<dm, hist, last>>
    /\ RaceUnchanged

\* dm.Write of writer w up to its loop
AppendWriteBegin(w) ==
    /\ race.app[w].pc = "write"
    /\ LET r == DataManagerWriteBegin(dm, config, race.app[w].rec)
       IN /\ dm' = r.m
          /\ race' = [race EXCEPT !.app[w].rec = r.rec, !.app[w].pc = "loop"]
    /\ UNCHANGED <<index, hist, last>>
    /\ RaceUnchanged

\* one iteration of the loop of dm.Write of writer w
AppendWriteStep(w) ==
    /\ race.app[w].pc = "loop"
    /\ race.app[w].written < Len(race.app[w].data)
    /\ LET r == DataManagerWriteStep(dm, config, race.app[w].data, race.app[w].written,
                                     race.app[w].rec)
       IN /\ dm' = r.m
          /\ race' = [race EXCEPT !.app[w].rec = r.rec, !.app[w].written = r.written]
    /\ UNCHANGED <<index, hist, last>>
    /\ RaceUnchanged

\* the end of dm.Write of writer w, and i.MaxRecord.Store(recID)
AppendStoreMax(w) ==
    /\ race.app[w].pc = "loop"
    /\ race.app[w].written >= Len(race.app[w].data)
    /\ index' = [index EXCEPT !.MaxRecord = race.app[w].rec.RecordID]
    /\ race' = [race EXCEPT !.app[w].rec = DataManagerWriteEnd(dm, race.app[w].rec),
                            !.app[w].pc = "encode"]
    /\ UNCHANGED <<dm, hist, last>>
    /\ RaceUnchanged

\* WriteRecord of writer w: the slot is encoded
AppendEncode(w) ==
    /\ race.app[w].pc = "encode"
    /\ index' = [index EXCEPT !.Segments[index.CurrentSegment] =
                                   WriteRecordEncode(IndexCurrent(index), race.app[w].rec)]
    /\ race' = [race EXCEPT !.app[w].pc = "cursor"]
    /\ UNCHANGED <<dm, hist, last>>
    /\ RaceUnchanged

\* WriteRecord of writer w: LowerRecord of an empty segment, Cursor
AppendCursor(w) ==
    /\ race.app[w].pc = "cursor"
    /\ index' = [index EXCEPT !.Segments[index.CurrentSegment] =
                                   WriteRecordCursor(IndexCurrent(index), race.app[w].rec)]
    /\ race' = [race EXCEPT !.app[w].pc = "upper"]
    /\ UNCHANGED <<dm, hist, last>>
    /\ RaceUnchanged

\* WriteRecord of writer w: UpperRecord
AppendUpper(w) ==
    /\ race.app[w].pc = "upper"
    /\ index' = [index EXCEPT !.Segments[index.CurrentSegment] =
                                   WriteRecordUpper(IndexCurrent(index), race.app[w].rec)]
    /\ race' = [race EXCEPT !.app[w].pc = "count"]
    /\ UNCHANGED <<dm, hist, last>>
    /\ RaceUnchanged

\* WriteRecord of writer w: RecordsCount and the header; Append returns and the
\* deferred writeMu.Unlock() runs
AppendEnd(w) ==
    /\ race.app[w].pc = "count"
    /\ index' = [index EXCEPT !.Segments[index.CurrentSegment] =
                                   WriteRecordCount(IndexCurrent(index))]
    /\ race' = [race EXCEPT !.app[w] = IdleAppend,
                            !.writeMu = IF race.writeMu = w THEN 0 ELSE race.writeMu,
                            !.prevBy = w,
                            !.handoff = @ \/ race.prevBy \notin {0, w}]
    /\ hist' = Append(hist, [id |-> race.app[w].rec.RecordID, data |-> race.app[w].data,
                             rec |-> race.app[w].rec, avail |-> race.app[w].avail])
    /\ last' = [op |-> "write", id |-> race.app[w].rec.RecordID,
                prevCur |-> race.app[w].prevCur, prevOp |-> last.op, found |-> FALSE]
    /\ UNCHANGED dm
    /\ RaceUnchanged

\* the segment object the reader's pointer refers to: the one in the map, or the
\* object as it was unlinked
ReaderSegment == IF race.rd.detached THEN race.rd.obj ELSE index.Segments[race.rd.seg]

\* ReadObject(id) by the reader, LookupMeta up to SegmentForID: NotFound, or a segment
ReadObjectSegment(id) ==
    /\ open
    /\ race.rd.pc \in {"idle", "done"}
    /\ \/ /\ SegmentsForID(index, id) = {}
          /\ race' = [race EXCEPT !.rd = [IdleRead EXCEPT !.pc = "done", !.id = id,
                                                          !.known = id \in WrittenIDs]]
       \/ \E k \in SegmentsForID(index, id) :
             race' = [race EXCEPT !.rd = [IdleRead EXCEPT !.pc = "load", !.id = id, !.seg = k,
                                                         !.known = id \in WrittenIDs]]
    /\ UNCHANGED <<index, dm, hist, last>>
    /\ RaceUnchanged

\* LookupMeta, seg.LoadRecord(id, rec): its result is not looked at
ReadObjectLoad ==
    /\ race.rd.pc = "load"
    /\ LET r == LoadRecord(ReaderSegment, race.rd.id, ZeroRecord)
       IN race' = [race EXCEPT !.rd.pc = "read", !.rd.loaded = r.ok, !.rd.rec = r.rec]
    /\ UNCHANGED <<index, dm, hist, last>>
    /\ RaceUnchanged

\* ReadObject after LookupMeta returned nil: NotFound for a purged record, else ReadRecord
ReadObjectRead ==
    /\ race.rd.pc = "read"
    /\ race' = [race EXCEPT !.rd.pc = "done",
                            !.rd.res = IF race.rd.rec.Purged THEN NotFound
                                       ELSE ReadRecord(dm, race.rd.rec)]
    /\ UNCHANGED <<index, dm, hist, last>>
    /\ RaceUnchanged

\* VacuumObjects up to the unlinking: the segment purged from id, the ones below marked
VacuumMarkedFrom(i, id, k) ==
    VacuumMarkBelow(i, k, PurgeFrom(i.Segments[k], id),
                    SegmentsBelow(i, i.Segments[k].SegmentID - 1))

\* the reader's pointer once VacuumObjects, started at segment k, has returned: a
\* segment it unlinked stays as it was when unlinked
ReaderAfterVacuum(rd, i, id, k, after) ==
    IF rd.pc # "load" \/ rd.detached THEN rd
    ELSE LET marked == VacuumMarkedFrom(i, id, k).Segments[rd.seg]
             removed == \/ rd.seg \in SegmentsBelow(i, i.Segments[k].SegmentID - 1)
                        \/ rd.seg = k /\ marked.Purged
         IN IF removed THEN [rd EXCEPT !.detached = TRUE, !.obj = marked] ELSE rd

\* wal.VacuumRecords(id, inclusive) while other calls are in flight: VacuumObjects
\* takes the write mutex and runs to its end
VacuumRecordsRacing(id, inclusive) ==
    /\ open
    /\ calls.vacuum < MaxVacuums
    /\ MutexFree(race.writeMu)
    /\ calls' = [calls EXCEPT !.vacuum = @ + 1]
    /\ LET norm == IF inclusive THEN id ELSE id - 1
       IN /\ IF VacuumTargets(index, norm) = {}
             THEN UNCHANGED <<index, dm>>
                  /\ race' = [race EXCEPT !.overlap = @ \/ race.writeMu # 0]
             ELSE \E k \in VacuumTargets(index, norm) :
                     LET r == VacuumFrom(index, dm, config, norm, k)
                     IN /\ index' = r.i
                        /\ dm' = r.m
                        /\ race' = [race EXCEPT
                                      !.overlap = @ \/ race.writeMu # 0,
                                      !.rd = ReaderAfterVacuum(race.rd, index, norm, k, r.i)]
          /\ vacMax' = Max(vacMax, norm)
          /\ last' = [op |-> "vacuum", id |-> norm, prevCur |-> CurrentRecordID(index),
                      prevOp |-> last.op, found |-> norm >= 0 /\ SegmentsForID(index, norm) # {}]
    /\ UNCHANGED <<config, open, hist, reopen, cursor, flock, fail, closing, iseg, dseg>>

\* wal.VacuumRecords(id, inclusive)
VacuumRecords(id, inclusive) ==
    /\ open
    /\ calls.vacuum < MaxVacuums
    /\ calls' = [calls EXCEPT !.vacuum = @ + 1]
    /\ LET norm == IF inclusive THEN id ELSE id - 1
       IN /\ IF VacuumTargets(index, norm) = {}
             THEN UNCHANGED <<index, dm>>
             ELSE \E k \in VacuumTargets(index, norm) :
                     LET r == VacuumFrom(index, dm, config, norm, k)
                     IN index' = r.i /\ dm' = r.m
          /\ vacMax' = Max(vacMax, norm)
          /\ last' = [op |-> "vacuum", id |-> norm, prevCur |-> CurrentRecordID(index),
                      prevOp |-> last.op, found |-> norm >= 0 /\ SegmentsForID(index, norm) # {}]
    /\ UNCHANGED <<config, open, hist, reopen, cursor, flock, fail, closing, race, iseg, dseg>>

\* wal.Close()
Close ==
    /\ open
    /\ calls.close < MaxCloses
    /\ calls' = [calls EXCEPT !.close = @ + 1]
    /\ open' = FALSE
    /\ dm' = DataManagerClose(dm)
    /\ index' = IndexClose(index)
    /\ reopen' = [cur |-> CurrentRecordID(index), empty |-> LiveRecords(index) = {},
                  runs |-> ReadObjects(index, dm, 0, TRUE)]
    /\ last' = [op |-> "close", id |-> -1,
                prevCur |-> CurrentRecordID(index), prevOp |-> last.op,
                      found |-> FALSE]
    /\ UNCHANGED <<config, hist, vacMax, cursor, flock, fail, closing, race, iseg, dseg>>

\* wal.Close() when the Close of one data segment returns an error: DataManager.Close
\* returns it, Index.Close returns it without closing an index segment
CloseFailsInData(done, bad) ==
    /\ open
    /\ ~closing.failed
    /\ bad \in dm.Segments
    /\ done \subseteq dm.Segments \ {bad}
    /\ dm' = DataManagerCloseErr(dm, done, bad)
    /\ closing' = [failed |-> TRUE, layer |-> "data", data |-> done \cup {bad}, index |-> {}]
    /\ last' = [op |-> "closeFailed", id |-> -1,
                prevCur |-> CurrentRecordID(index), prevOp |-> last.op, found |-> FALSE]
    /\ UNCHANGED <<config, open, index, hist, vacMax, reopen, calls, cursor, flock, fail, race, iseg, dseg>>

\* wal.Close() when the Close of one index segment returns an error: the data manager
\* is closed, Index.Close returns the error
CloseFailsInIndex(done, bad) ==
    /\ open
    /\ ~closing.failed
    /\ bad \in DOMAIN index.Segments
    /\ done \subseteq DOMAIN index.Segments \ {bad}
    /\ dm' = DataManagerClose(dm)
    /\ index' = IndexCloseErr(index, done, bad)
    /\ closing' = [failed |-> TRUE, layer |-> "index", data |-> dm.Segments,
                   index |-> done \cup {bad}]
    /\ last' = [op |-> "closeFailed", id |-> -1,
                prevCur |-> CurrentRecordID(index), prevOp |-> last.op, found |-> FALSE]
    /\ UNCHANGED <<config, open, hist, vacMax, reopen, calls, cursor, flock, fail, race, iseg, dseg>>

\* wal.New(config) on the work directory of a closed instance
Open ==
    /\ ~open
    /\ open' = TRUE
    /\ dm' = NewDataManager(dm.Files, dm.Objects, config)
    /\ index' = NewIndex(index.Files, index.Segments, config)
    /\ last' = [op |-> "open", id |-> -1,
                prevCur |-> CurrentRecordID(index), prevOp |-> last.op,
                      found |-> FALSE]
    /\ UNCHANGED <<config, hist, vacMax, reopen, calls, cursor, flock, fail, closing, race, iseg, dseg>>

\* wal.ReadObjects(id, inclusive): the cursor the caller keeps
StartCursor(id, inclusive) ==
    /\ open
    /\ ~cursor.made
    /\ cursor' = [NoCursor EXCEPT !.made = TRUE, !.c = NewCursor(id, inclusive),
                                  !.id = id, !.inclusive = inclusive,
                                  !.start = NewCursor(id, inclusive).wants,
                                  !.startLen = Len(hist)]
    /\ UNCHANGED <<config, open, index, dm, hist, vacMax, last, reopen, calls, flock, fail, closing, race, iseg, dseg>>

\* one Next() on the cursor and, when it returned true, Offset() and Read()
StepCursor ==
    /\ open
    /\ cursor.made
    /\ \E o \in CursorNext(index, cursor.c) :
          cursor' = [cursor EXCEPT
                       !.c = o.c,
                       !.ok = IF o.ok THEN "true" ELSE "false",
                       !.prevOk = cursor.ok,
                       !.prevWants = cursor.c.wants,
                       !.missLen = IF o.ok THEN cursor.missLen ELSE Len(hist),
                       !.run = IF o.ok
                               THEN Append(cursor.run, [id |-> CursorOffset(o.c),
                                                        rid |-> o.c.record.RecordID,
                                                        read |-> CursorRead(dm, o.c)])
                               ELSE cursor.run]
    /\ UNCHANGED <<config, open, index, dm, hist, vacMax, last, reopen, calls, flock, fail, closing, race, iseg, dseg>>

\* what the calls on Flock instances leave alone
WalUnchanged ==
    UNCHANGED <<config, open, index, dm, hist, vacMax, last, reopen, calls, cursor, fail, closing, race, iseg, dseg>>

\* the record of a call on instance f: the instance as the call found it, and whether
\* the call left the instances, the lock holders and the path as they were
FlockCalled(op, f, r) ==
    [r.fl EXCEPT !.last = [op |-> op, f |-> f, err |-> r.err,
                           locked |-> flock.inst[f].locked,
                           closed |-> flock.inst[f].closed,
                           held |-> flock.inst[f].held,
                           same |-> /\ r.fl.inst = flock.inst
                                    /\ r.fl.holder = flock.holder
                                    /\ r.fl.path = flock.path]]

\* flock.New(path), as wal.initializeLock calls it
NewFlock(f) ==
    /\ ~flock.inst[f].made
    /\ \A g \in 1..(f - 1) : flock.inst[g].made
    /\ flock' = FlockCalled("New", f, [fl |-> FlockNew(flock, f), err |-> "nil"])
    /\ WalUnchanged

\* Lock() on an instance
LockFlock(f) ==
    /\ flock.inst[f].made /\ ~flock.inst[f].removing
    /\ flock' = FlockCalled("Lock", f, FlockLock(flock, f))
    /\ WalUnchanged

\* Unlock() on an instance
UnlockFlock(f) ==
    /\ flock.inst[f].made /\ ~flock.inst[f].removing
    /\ flock' = FlockCalled("Unlock", f, FlockUnlock(flock, f))
    /\ WalUnchanged

\* Close() on an instance
CloseFlock(f) ==
    /\ flock.inst[f].made /\ ~flock.inst[f].removing
    /\ flock' = FlockCalled("Close", f, FlockClose(flock, f))
    /\ WalUnchanged

\* Remove() on an instance (wal.tearDownLock), up to its os.Remove
RemoveFlock(f) ==
    /\ flock.inst[f].made /\ ~flock.inst[f].removing
    /\ flock' = FlockCalled("Remove", f, FlockRemoveClose(flock, f))
    /\ WalUnchanged

----------------------------------------------------------------------------
(* One DataSegment on its own *)

DataSegmentUnchanged ==
    UNCHANGED <<config, open, index, dm, hist, vacMax, last, reopen, calls, cursor, flock, fail,
                closing, race, iseg>>

\* NewDataSegment(0, config) on a file that does not exist
DataSegmentNew(size) ==
    /\ ~dseg.made
    /\ dseg' = [NoDataSegment EXCEPT
                  !.made = TRUE, !.op = "new",
                  !.s = NewDataSegment(0, [IndexSegmentSize |-> 0, DataSegmentSize |-> size])]
    /\ DataSegmentUnchanged

\* offset, written = seg.Write(data)
DataSegmentWriteCall(data) ==
    /\ dseg.made
    /\ dseg' = [dseg EXCEPT !.s = DataSegmentWrite(dseg.s, data).seg,
                            !.before = dseg.s, !.op = "write", !.data = data,
                            !.len = 0,
                            !.offset = DataSegmentWrite(dseg.s, data).offset,
                            !.written = DataSegmentWrite(dseg.s, data).written,
                            !.read = NoDataSegment.read]
    /\ DataSegmentUnchanged

\* n = seg.Read(into, offset), len(into) = n
DataSegmentReadCall(n, offset) ==
    /\ dseg.made
    /\ dseg' = [dseg EXCEPT !.before = dseg.s, !.op = "read", !.data = << >>,
                            !.len = n, !.offset = offset, !.written = 0,
                            !.read = DataSegmentRead(dseg.s, n, offset)]
    /\ DataSegmentUnchanged

----------------------------------------------------------------------------
(* One IndexSegment on its own *)

SegmentUnchanged ==
    UNCHANGED <<config, open, index, dm, hist, vacMax, last, reopen, calls, cursor, flock, fail,
                closing, race, dseg>>

\* the next record an Append hands to WriteRecord: ids go up by one
SegmentNextRecord ==
    [ZeroRecord EXCEPT !.RecordID = IF iseg.s.Cursor = 0 THEN iseg.first
                                    ELSE iseg.s.UpperRecord + 1]

\* NewIndexSegment(0, config) on a file that does not exist
NewSegment(slots, first) ==
    /\ ~iseg.made
    /\ iseg' = [NoIndexSegment EXCEPT
                  !.made = TRUE, !.first = first, !.op = "new",
                  !.s = NewIndexSegment(0, [IndexSegmentSize |-> slots * IndexRecordSize + 3,
                                            DataSegmentSize |-> DataSegmentSize])]
    /\ SegmentUnchanged

\* seg.WriteRecord(rec), called by Append on a segment that fits the record
SegmentWriteRecord ==
    /\ iseg.made
    /\ ~iseg.s.Purged
    /\ FitsRecord(iseg.s)
    /\ iseg' = [iseg EXCEPT !.s = WriteRecord(iseg.s, SegmentNextRecord),
                            !.op = "write", !.id = SegmentNextRecord.RecordID]
    /\ SegmentUnchanged

\* seg.PurgeFrom(id), called by VacuumObjects on the segment SegmentForID(id) found
SegmentPurgeFrom(id) ==
    /\ iseg.made
    /\ ~iseg.s.Purged
    /\ ContainsRecord(iseg.s, id)
    /\ iseg' = [iseg EXCEPT !.s = PurgeFrom(iseg.s, id), !.op = "purge", !.id = id]
    /\ SegmentUnchanged

\* seg.Close(), then NewIndexSegment(0, config) on the file that exists: LoadMetadata
SegmentReopen ==
    /\ iseg.made
    /\ iseg.op # "reopen"
    /\ iseg' = [iseg EXCEPT !.s = IndexSegmentLoadMetadata(IndexSegmentClose(iseg.s)),
                            !.op = "reopen", !.id = -1,
                            !.lower = iseg.s.LowerRecord, !.count = iseg.s.RecordsCount]
    /\ SegmentUnchanged

\* the os.Remove of a Remove() in progress
RemoveFlockUnlink(f) ==
    /\ flock.inst[f].made /\ flock.inst[f].removing
    /\ flock' = FlockCalled("Unlink", f, [fl |-> FlockRemoveUnlink(flock, f), err |-> "nil"])
    /\ WalUnchanged

Next ==
    \/ \E data \in Payloads : WriteObject(data)
    \/ \E id \in 0..MaxWrites, inclusive \in BOOLEAN : VacuumRecords(id, inclusive)
    \/ Close
    \/ Open

Spec == Init /\ [][Next]_vars

\* the log driven by writes, Close and re-open only
NextWrites ==
    \/ \E data \in Payloads : WriteObject(data)
    \/ Close
    \/ Open

SpecWrites == Init /\ [][NextWrites]_vars

\* the log driven by writes while one cursor is read
NextCursor ==
    \/ \E data \in Payloads : WriteObject(data)
    \/ \E id \in 0..MaxWrites, inclusive \in BOOLEAN : StartCursor(id, inclusive)
    \/ StepCursor

SpecCursor == Init /\ [][NextCursor]_vars

\* the log driven by writes, some of which fail in the data layer, Close and re-open
NextFailures ==
    \/ \E data \in Payloads : WriteObject(data)
    \/ \E data \in Payloads : WriteObjectFails(data)
    \/ Close
    \/ Open

SpecFailures == Init /\ [][NextFailures]_vars

\* the log driven by writes and by a Close in which the Close of one segment fails
NextCloseFails ==
    \/ \E data \in Payloads : WriteObject(data)
    \/ \E bad \in 0..MaxWrites, done \in SUBSET (0..MaxWrites) : CloseFailsInData(done, bad)
    \/ \E bad \in 0..MaxWrites, done \in SUBSET (0..MaxWrites) : CloseFailsInIndex(done, bad)

SpecCloseFails == Init /\ [][NextCloseFails]_vars

\* the steps of an Append in flight
AppendSteps(w) ==
    \/ AppendWriteBegin(w)
    \/ AppendWriteStep(w)
    \/ AppendStoreMax(w)
    \/ AppendEncode(w)
    \/ AppendCursor(w)
    \/ AppendUpper(w)
    \/ AppendEnd(w)

\* the steps of the reader's ReadObject
ReadSteps ==
    \/ \E id \in 0..(MaxWrites - 1) : ReadObjectSegment(id)
    \/ ReadObjectLoad
    \/ ReadObjectRead

\* concurrent writers and one reader on an open WAL
NextRace ==
    \/ \E w \in 1..MaxWriters, data \in Payloads : AppendBegin(w, data)
    \/ \E w \in 1..MaxWriters : AppendSteps(w)
    \/ ReadSteps

SpecRace == Init /\ [][NextRace]_vars

\* concurrent writers and VacuumRecords calls on an open WAL
NextWriters ==
    \/ \E w \in 1..MaxWriters, data \in Payloads : AppendBegin(w, data)
    \/ \E w \in 1..MaxWriters : AppendSteps(w)
    \/ \E id \in 0..MaxWrites, inclusive \in BOOLEAN : VacuumRecordsRacing(id, inclusive)

SpecWriters == Init /\ [][NextWriters]_vars

\* one reader while WriteObject and VacuumRecords calls are made on an open WAL
NextReader ==
    \/ \E data \in Payloads : WriteObject(data)
    \/ \E id \in 0..MaxWrites, inclusive \in BOOLEAN : VacuumRecordsRacing(id, inclusive)
    \/ ReadSteps

SpecReader == Init /\ [][NextReader]_vars

\* the Flock instances opened on the lock path of one work directory
NextFlock ==
    \E f \in 1..MaxFlocks :
        \/ NewFlock(f)
        \/ LockFlock(f)
        \/ UnlockFlock(f)
        \/ CloseFlock(f)
        \/ RemoveFlock(f)
        \/ RemoveFlockUnlink(f)

SpecFlock == Init /\ [][NextFlock]_vars

\* one index segment written, purged and re-opened
NextSegment ==
    \/ \E slots \in 1..MaxSegmentSlots, first \in 0..MaxFirstID : NewSegment(slots, first)
    \/ SegmentWriteRecord
    \/ \E id \in 0..(MaxFirstID + MaxSegmentSlots) : SegmentPurgeFrom(id)
    \/ SegmentReopen

SpecSegment == Init /\ [][NextSegment]_vars

\* the log of Spec opened with any of DataConfigs
SpecData == InitData /\ [][Next]_vars

\* one data segment written and read
NextDataSegment ==
    \/ \E size \in 1..DataSegmentSize : DataSegmentNew(size)
    \/ \E n \in 0..(MaxPayloadLen + 1) : DataSegmentWriteCall(Payload(n))
    \/ \E n \in 0..(DataSegmentSize + 1), offset \in 0..(DataSegmentSize + 1) :
          DataSegmentReadCall(n, offset)

SpecDataSegment == Init /\ [][NextDataSegment]_vars

\* the log driven by writes of one byte and vacuums while a caller steps one cursor
NextCursorVacuum ==
    \/ WriteObject(Payload(1))
    \/ \E id \in 0..MaxWrites : VacuumRecords(id, TRUE)
    \/ \E id \in 0..MaxWrites, inclusive \in BOOLEAN : StartCursor(id, inclusive)
    \/ StepCursor

SpecCursorVacuum == Init /\ [][NextCursorVacuum]_vars

\* the Flock instances of one path driven by New, Lock and Remove only
NextFlockRemove ==
    \E f \in 1..MaxFlocks :
        \/ NewFlock(f)
        \/ LockFlock(f)
        \/ RemoveFlock(f)
        \/ RemoveFlockUnlink(f)

SpecFlockRemove == Init /\ [][NextFlockRemove]_vars

----------------------------------------------------------------------------
(* Claims *)

\* C1: every record id R written and not vacuumed (R above every vacuumed id) is read
\* back by ReadObject(R) as exactly the bytes written under R.
C1_LiveRecordsReadBack ==
    open => \A R \in WrittenIDs :
                R > vacMax => ReadObject(index, dm, R) = {Ok(WrittenUnder(R))}

\* C2: no append is assigned a record id that an earlier append of the same log was
\* assigned, whatever vacuums happened in between.
C2_RecordIDsNeverReused ==
    \A a, b \in 1..Len(hist) : a # b => hist[a].id # hist[b].id

\* C3: a successful append is assigned CurrentRecordID() as it was just before the call
\* plus one, or 0 when it is the first record of the log.
C3_AppendAssignsNextID ==
    last.op = "write" =>
        \/ last.id = last.prevCur + 1
        \/ Len(hist) = 1 /\ last.id = 0

\* C4: after VacuumRecords(id, inclusive) returned without error, ReadObject(R) fails
\* with NotFound for every written R <= id (R < id when not inclusive); stated for the
\* calls whose id names a record the index holds (last.id is id, or id - 1 when not
\* inclusive).
C4_VacuumedRecordsNotFound ==
    (last.op = "vacuum" /\ last.found) =>
        \A R \in WrittenIDs : R <= last.id => ReadObject(index, dm, R) = {NotFound}

\* C5: every data segment in [DataSegmentStartID, DataSegmentEndID] of every live index
\* record is present in the DataManager and on disk.
C5_LiveRecordsKeepDataSegments ==
    \A r \in LiveRecords(index) :
        \A d \in r.DataSegmentStartID .. r.DataSegmentEndID :
            d \in dm.Segments /\ d \in dm.Files

\* C6: after VacuumObjects returns, every data segment is referenced by a live index
\* record, unless no live record remains: then exactly one data segment and exactly one
\* index segment exist, both empty.
C6_NoUnreferencedDataSegment ==
    last.op = "vacuum" =>
        IF LiveRecords(index) = {}
        THEN /\ Cardinality(dm.Segments) = 1
             /\ \A d \in dm.Segments : dm.Objects[d].Cursor = 0
             /\ Cardinality(DOMAIN index.Segments) = 1
             /\ \A k \in DOMAIN index.Segments :
                   index.Segments[k].Cursor = 0 /\ index.Segments[k].RecordsCount = 0
        ELSE \A d \in dm.Segments :
                \E r \in LiveRecords(index) : d \in r.DataSegmentStartID .. r.DataSegmentEndID

\* C7: a VacuumRecords call that leaves at least one live record does not change
\* CurrentRecordID(): it still is the id of the latest written record.
C7_VacuumKeepsCurrentRecordID ==
    (last.op = "vacuum" /\ LiveRecords(index) # {}) =>
        CurrentRecordID(index) = last.prevCur

\* C8: a WriteObject issued after a vacuum succeeds, and the new record is read back
\* byte-identical by ReadObject under the id it was assigned and is the first record a
\* cursor started at that id yields.
C8_WriteAfterVacuumReadable ==
    (last.op = "write" /\ calls.vacuum > 0) =>
        /\ ReadObject(index, dm, last.id) = {Ok(hist[Len(hist)].data)}
        /\ \A run \in ReadObjects(index, dm, last.id, TRUE) :
              Len(run) >= 1 /\ run[1] = [id |-> last.id, read |-> Ok(hist[Len(hist)].data)]

\* C9: after writes, Close and re-open, a cursor from 0 inclusive yields the same
\* records, with the same ids and bytes, in the same order as before the Close.
C9_ReopenKeepsRecords ==
    last.op = "open" => ReadObjects(index, dm, 0, TRUE) = reopen.runs

\* C9 witness: a re-opened log of three or more records over two or more index
\* segments whose cursor from 0 yields every written record
C9_Witness ==
    /\ last.op = "open"
    /\ Len(hist) >= 3
    /\ Cardinality(DOMAIN index.Segments) >= 2
    /\ ReadObjects(index, dm, 0, TRUE) =
          {[n \in 1..Len(hist) |-> [id |-> hist[n].id, read |-> Ok(hist[n].data)]]}

\* C10: after re-open CurrentRecordID() equals its value before Close and the next
\* append is assigned that value plus one, or 0 if the log held no record at Close.
C10_ReopenContinuesIDs ==
    /\ last.op = "open" => CurrentRecordID(index) = reopen.cur
    /\ (last.op = "write" /\ last.prevOp = "open") =>
          last.id = IF reopen.empty THEN 0 ELSE reopen.cur + 1

\* the bytes a write of hist[n] could put in the data segment it started in: what
\* was left in the current segment, or a whole new segment when none was left
C11_Capacity(n) ==
    IF hist[n].avail = 0 THEN config.DataSegmentSize ELSE hist[n].avail

\* the number of data segments the payload of hist[n] needs beyond the first
C11_MoreSegments(n) ==
    IF Len(hist[n].data) <= C11_Capacity(n) THEN 0
    ELSE (Len(hist[n].data) - C11_Capacity(n) + config.DataSegmentSize - 1)
            \div config.DataSegmentSize

\* C11 (amended): a payload longer than what the segment it starts in can take (the
\* rest of the current data segment, or a whole new segment when the current one is
\* full) is split over consecutive data segments, DataSegmentEndID > DataSegmentStartID,
\* each later segment filled from offset 0; DataManager.Read of its index record
\* returns the payload byte-identical, also after Close and re-open.
C11_SplitPayloadReadsBack ==
    \A n \in 1..Len(hist) :
        LET h == hist[n]
            cap == C11_Capacity(n)
        IN /\ Len(h.data) > 0 => h.rec.DataSegmentOffset = config.DataSegmentSize - cap
           /\ h.rec.DataSegmentEndID = h.rec.DataSegmentStartID + C11_MoreSegments(n)
           /\ Len(h.data) > cap => h.rec.DataSegmentEndID > h.rec.DataSegmentStartID
           /\ \A d \in h.rec.DataSegmentStartID .. h.rec.DataSegmentEndID :
                 /\ d \in dm.Segments
                 /\ d > h.rec.DataSegmentStartID =>
                       LET from == cap + (d - h.rec.DataSegmentStartID - 1) * config.DataSegmentSize
                           count == Min(Len(h.data) - from, config.DataSegmentSize)
                       IN SubSeq(dm.Objects[d].Records, 1, count) =
                             SubSeq(h.data, from + 1, from + count)
           /\ open => DataManagerRead(dm, h.rec) = Ok(h.data)

\* C11 witness: a re-opened log with a payload that was split over two data segments
\* from a segment that was partly filled, read back byte-identical
C11_Witness ==
    /\ last.op = "open"
    /\ \E n \in 1..Len(hist) :
          /\ hist[n].avail > 0
          /\ Len(hist[n].data) > hist[n].avail
          /\ hist[n].rec.DataSegmentEndID > hist[n].rec.DataSegmentStartID
          /\ DataManagerRead(dm, hist[n].rec) = Ok(hist[n].data)

\* C11 as stated: every payload longer than the remaining capacity of the current data
\* segment has DataSegmentEndID > DataSegmentStartID.
C11_AsStated ==
    \A n \in 1..Len(hist) :
        Len(hist[n].data) > hist[n].avail =>
            hist[n].rec.DataSegmentEndID > hist[n].rec.DataSegmentStartID

\* C12 (amended): a Next() that returns false leaves the cursor where it was; a cursor
\* started at or before the tail of the log whose Next() returned false returns true
\* on the next Next() after a record was appended; and a Next() that returns true after
\* one that returned false yields an id above the last id yielded, Read() returning
\* the bytes of a record appended after the false.
C12_CursorFollowsTail ==
    cursor.made =>
        /\ cursor.ok = "false" => cursor.c.wants = cursor.prevWants
        /\ (cursor.ok = "false" /\ cursor.start <= cursor.startLen
               /\ Len(hist) > cursor.missLen) =>
              \A o \in CursorNext(index, cursor.c) : o.ok
        /\ (cursor.ok = "true" /\ cursor.prevOk = "false") =>
              LET e == cursor.run[Len(cursor.run)]
              IN /\ Len(cursor.run) > 1 => e.id > cursor.run[Len(cursor.run) - 1].id
                 /\ \E n \in (cursor.missLen + 1)..Len(hist) :
                       hist[n].id = e.id /\ e.read = Ok(hist[n].data)

\* C12 witness: a cursor that yielded a record, then returned false, then yielded the
\* record appended after that
C12_Witness ==
    /\ cursor.made
    /\ cursor.ok = "true"
    /\ cursor.prevOk = "false"
    /\ Len(cursor.run) > 1
    /\ cursor.run[Len(cursor.run)].read = Ok(hist[Len(hist)].data)
    /\ cursor.run[Len(cursor.run)].id = hist[Len(hist)].id

\* C12 as stated: once a record has been appended after a Next() that returned false,
\* the next Next() on the same cursor returns true.
C12_AsStated ==
    (cursor.made /\ cursor.ok = "false" /\ Len(hist) > cursor.missLen) =>
        \A o \in CursorNext(index, cursor.c) : o.ok

\* C13: on a log of records 0..N-1 with no vacuum, a cursor from ReadObjects(id,
\* inclusive) yields the ids id..N-1 (id+1..N-1 when not inclusive) in steps of 1 and
\* then returns false (N the number of records when it does); after each Next() that
\* returned true Offset() is the id of the
\* record loaded and Read() yields the bytes written under it.
C13_CursorYieldsRange ==
    cursor.made =>
        /\ cursor.start = IF cursor.inclusive THEN cursor.id ELSE cursor.id + 1
        /\ \A k \in 1..Len(cursor.run) :
              /\ cursor.run[k].id = cursor.start + k - 1
              /\ cursor.run[k].rid = cursor.run[k].id
              /\ cursor.run[k].id \in WrittenIDs
              /\ cursor.run[k].read = Ok(WrittenUnder(cursor.run[k].id))
        /\ cursor.ok = "false" =>
              {cursor.run[k].id : k \in 1..Len(cursor.run)} = cursor.start .. (cursor.missLen - 1)
        /\ cursor.ok = "true" => CursorOffset(cursor.c) = cursor.run[Len(cursor.run)].id

\* C13 witness: a cursor started after record 0 on a log of three or more records
\* that yielded every later record and then returned false
C13_Witness ==
    /\ cursor.made
    /\ cursor.ok = "false"
    /\ cursor.start >= 1
    /\ Len(cursor.run) >= 2
    /\ cursor.run[Len(cursor.run)].id = Len(hist) - 1

\* C14: whenever Next() returns true, on a cursor at any position, the record it loaded
\* is live (its Purged flag is clear, it is a written record of a segment not purged,
\* and it is the record the cursor asked for) and Read() returns its bytes without error.
C14_CursorYieldsLiveRecords ==
    open =>
        \A w \in 0..MaxWrites :
            \A o \in CursorNext(index, NewCursor(w, TRUE)) :
                o.ok => /\ ~o.c.record.Purged
                        /\ o.c.record \in LiveRecords(index)
                        /\ o.c.record.RecordID = w
                        /\ CursorRead(dm, o.c).kind = "ok"

\* C15: on a log holding records 0..N-1 with no vacuum, over any number of index
\* segments, CountObjects(id, false) = N-1-id and CountObjects(id, true) = N-id for
\* 0 <= id < N, and CountObjects is 0 for an id no index segment contains.
C15_CountObjects ==
    (open /\ WrittenIDs = 0 .. (Len(hist) - 1)) =>
        \A id \in -1..MaxWrites :
            /\ CountObjects(index, id, FALSE) =
                  {IF id >= 0 /\ id < Len(hist) THEN Len(hist) - 1 - id ELSE 0}
            /\ CountObjects(index, id, TRUE) =
                  {IF id >= 0 /\ id < Len(hist) THEN Len(hist) - id ELSE 0}
            /\ SegmentsForID(index, id) = {} <=> ~(id >= 0 /\ id < Len(hist))

\* C15 witness: a log of four records over three or more index segments, re-opened,
\* whose CountObjects(0, true) is 4
C15_Witness ==
    /\ open
    /\ last.op = "open"
    /\ WrittenIDs = 0..3
    /\ Cardinality(DOMAIN index.Segments) >= 3
    /\ CountObjects(index, 0, TRUE) = {4}

\* C16: after any sequence of appends and vacuums IsEmpty() is true exactly when the
\* log holds no live record: true on a new log, false after a write, true again after
\* VacuumRecords(CurrentRecordID(), true).
C16_IsEmptyIffNoLiveRecord ==
    (open /\ calls.close = 0) =>
        /\ IsEmpty(index) <=> LiveRecords(index) = {}
        /\ last.op = "write" => ~IsEmpty(index)
        /\ (last.op = "vacuum" /\ last.id = last.prevCur /\ last.found) => IsEmpty(index)

\* the instances that hold the lock: locked and not closed
C17_Holders == {f \in 1..MaxFlocks : flock.inst[f].locked /\ ~flock.inst[f].closed}

\* C17: while one Flock instance holds the lock on the path, Lock() on any other
\* instance opened on the same path fails: a Lock() that returned nil found no other
\* holder, and no two instances hold the lock at once.
C17_LockExcludesOthers ==
    /\ Cardinality(C17_Holders) <= 1
    /\ (flock.last.op = "Lock" /\ flock.last.err = "nil") => C17_Holders = {flock.last.f}

\* C18: Lock() on an instance that holds the lock returns AlreadyLockedErr, Unlock() on
\* one that does not hold it NotLockedErr, Lock() or Unlock() after Close() ClosedErr,
\* and in each case the instance, the lock and the file are as before the call.
C18_FlockMisuseIsAnError ==
    flock.last.op \in {"Lock", "Unlock"} =>
        /\ flock.last.closed => flock.last.err = "ClosedErr" /\ flock.last.same
        /\ (~flock.last.closed /\ flock.last.locked /\ flock.last.op = "Lock") =>
              flock.last.err = "AlreadyLockedErr" /\ flock.last.same
        /\ (~flock.last.closed /\ ~flock.last.locked /\ flock.last.op = "Unlock") =>
              flock.last.err = "NotLockedErr" /\ flock.last.same

\* C18 witness: Lock() on the instance that holds the lock, and Lock() or Unlock()
\* after Close() on an instance that held it, have been refused
C18_Witness ==
    \/ /\ flock.last.op = "Lock"
       /\ flock.last.locked /\ ~flock.last.closed
       /\ flock.last.err = "AlreadyLockedErr"
    \/ /\ flock.last.op = "Unlock"
       /\ flock.last.closed /\ flock.last.held
       /\ flock.last.err = "ClosedErr"

\* C19: Close() on a Flock that holds the lock releases it: after it no instance holds
\* the lock of that file, a closed instance never holds a lock, and a Lock() that
\* could not lock met an instance that holds the lock now.
C19_CloseReleasesLock ==
    /\ (flock.last.op = "Close" /\ flock.last.err = "nil" /\ flock.last.locked) =>
          /\ flock.holder[flock.inst[flock.last.f].inode] = 0
          /\ flock.inst[flock.last.f].closed
    /\ \A n \in 1..MaxFlocks :
          flock.holder[n] # 0 => ~flock.inst[flock.holder[n]].closed
    /\ (flock.last.op = "Lock" /\ flock.last.err = "CannotLockErr") =>
          flock.holder[flock.inst[flock.last.f].inode] \in C17_Holders

\* C19 witness: an instance created on the path after another one, which held the
\* lock, was closed, acquires the lock of the same file
C19_Witness ==
    /\ flock.last.op = "Lock"
    /\ flock.last.err = "nil"
    /\ flock.inst[flock.last.f].reopened

\* what a failed WriteObject may not change: MaxRecord and the current record id, and
\* for every id the answers of LookupMeta, ReadObject, CountObjects and ReadObjects
C20_Results ==
    <<index.MaxRecord, CurrentRecordID(index),
      [id \in 0..(MaxWrites + 1) |->
         <<LookupMeta(index, id), ReadObject(index, dm, id),
           [inclusive \in BOOLEAN |->
              <<CountObjects(index, id, inclusive), ReadObjects(index, dm, id, inclusive)>>]>>]>>

\* C20: a WriteObject whose Append failed in the data layer leaves MaxRecord as it
\* was, leaves every index segment that existed with the slots, the cursor and the
\* counters it had, writes no slot to a segment it created, and LookupMeta, ReadObject,
\* CountObjects and ReadObjects answer for every id what they answered before the call.
C20_FailedAppendChangesNothing ==
    [][fail'.count # fail.count =>
         /\ C20_Results' = C20_Results
         /\ \A k \in DOMAIN index.Segments : index'.Segments[k] = index.Segments[k]
         /\ \A k \in DOMAIN index'.Segments \ DOMAIN index.Segments :
               index'.Segments[k].Cursor = 0 /\ index'.Segments[k].RecordsCount = 0]_vars

\* C20 witness: a WriteObject failed after the index had rotated for it and after a
\* part of its payload was written, on a log that holds records
C20_Witness ==
    /\ last.op = "writeFailed"
    /\ fail.rotated
    /\ fail.bytes > 0
    /\ Len(hist) > 0

\* C21: a Close in which the Close of one segment failed has called Close on every
\* data segment and on every index segment.
C21_CloseAttemptsEverySegment ==
    closing.failed =>
        /\ closing.data = dm.Segments
        /\ closing.index = DOMAIN index.Segments

\* C22: a VacuumRecords call whose normalized id is negative or in no index segment
\* changes nothing: the index (slots, headers, files, MaxRecord) and the data manager
\* are what they were.
C22_VacuumOfNoRecordChangesNothing ==
    [][(calls'.vacuum # calls.vacuum /\ ~last'.found) =>
         /\ index' = index
         /\ dm' = dm
         /\ CurrentRecordID(index') = CurrentRecordID(index)]_vars

\* C22 witness: on a log with live records VacuumRecords was called with a normalized
\* id >= 0 that no index segment contains
C22_Witness ==
    /\ last.op = "vacuum"
    /\ ~last.found
    /\ last.id >= 0
    /\ LiveRecords(index) # {}

\* C22 second witness state: the normalized id was negative on a log with live records
C22_WitnessNegative ==
    /\ last.op = "vacuum"
    /\ ~last.found
    /\ last.id < 0
    /\ LiveRecords(index) # {}

\* C23: while an Append has not encoded its index slot, MaxRecord is below the id of
\* its record.
C23_MaxRecordAfterSlot ==
    \A w \in 1..MaxWriters :
        race.app[w].pc \in {"write", "loop", "encode"} =>
            index.MaxRecord < race.app[w].rec.RecordID

\* the records whose slot is encoded: those of the Append calls that returned and
\* those of the calls in flight past the encoding
C24_Encoded ==
    {[id |-> hist[n].id, data |-> hist[n].data, rec |-> hist[n].rec] : n \in 1..Len(hist)}
    \cup {[id |-> race.app[w].rec.RecordID, data |-> race.app[w].data, rec |-> race.app[w].rec] :
            w \in {v \in 1..MaxWriters : race.app[v].pc \in {"cursor", "upper", "count"}}}

\* C24: when the LookupMeta of a reader racing with Append returns nil, LoadRecord has
\* decoded the record, it is the record an Append encoded under that id, and the
\* bytes it references are the payload, whole, in the data segments.
C24_LookupSeesWrittenRecord ==
    race.rd.pc = "read" =>
        /\ race.rd.loaded
        /\ \E e \in C24_Encoded :
              /\ e.id = race.rd.id
              /\ race.rd.rec = e.rec
              /\ DataManagerRead(dm, race.rd.rec) = Ok(e.data)

\* C24 witness: LookupMeta returned the record of an Append that is still inside
\* WriteRecord, with a payload that is not empty
C24_Witness ==
    /\ race.rd.pc = "read"
    /\ \E w \in 1..MaxWriters :
          /\ race.app[w].pc = "count"
          /\ race.app[w].rec.RecordID = race.rd.id
          /\ Len(race.app[w].data) > 0

\* C25: the bytes of every record written are in the data segments unchanged at every
\* step of the later writes, and a ReadObject of a record that was written when the
\* call started returns exactly its payload.
C25_WrittenBytesStay ==
    /\ \A n \in 1..Len(hist) : DataManagerRead(dm, hist[n].rec) = Ok(hist[n].data)
    /\ (race.rd.pc = "done" /\ race.rd.known) =>
          \E n \in 1..Len(hist) : hist[n].id = race.rd.id /\ race.rd.res = Ok(hist[n].data)

\* C25 witness: a ReadObject of a written record with a payload has returned while a
\* write has copied a part of its payload into the data segment that record ends in
C25_Witness ==
    /\ race.rd.pc = "done"
    /\ race.rd.known
    /\ race.rd.res.kind = "ok"
    /\ Len(race.rd.res.bytes) > 0
    /\ \E w \in 1..MaxWriters, n \in 1..Len(hist) :
          /\ race.app[w].pc = "loop"
          /\ race.app[w].written > 0
          /\ race.app[w].written < Len(race.app[w].data)
          /\ hist[n].id = race.rd.id
          /\ hist[n].rec.DataSegmentEndID = race.app[w].rec.DataSegmentStartID

\* the first byte of a record's payload, counted over the data segments in order
C26_FirstByte(rec) == rec.DataSegmentStartID * config.DataSegmentSize + rec.DataSegmentOffset

C27_RacingReadYieldsOwnBytes ==
    (race.rd.pc = "done" /\ race.rd.res.kind = "ok") =>
        /\ race.rd.loaded
        /\ \E n \in 1..Len(hist) : hist[n].id = race.rd.id /\ race.rd.res = Ok(hist[n].data)

\* the slots of s that WriteRecord has encoded, counted from 0
C28_WrittenSlots(s) == {k \in 0..(Len(s.Records) - 1) : k < s.Cursor \div IndexRecordSize}

\* C28: after PurgeFrom(id) on an index segment that is not marked Purged as a
\* whole, also after earlier PurgeFrom calls on it, the written slots flagged
\* purged are exactly those whose stored RecordID is <= id, and RecordsCount is
\* the number of written slots that are not flagged
C28_PurgeFlagsExactlyUpToID ==
    (iseg.op = "purge" /\ ~iseg.s.Purged) =>
        /\ \A k \in C28_WrittenSlots(iseg.s) :
               IsIndexRecordPurged(SlotAt(iseg.s, k)) <=> SlotAt(iseg.s, k).RecordID <= iseg.id
        /\ iseg.s.RecordsCount =
               Cardinality({k \in C28_WrittenSlots(iseg.s) : ~IsIndexRecordPurged(SlotAt(iseg.s, k))})

\* C29: for every id an index segment contains, LoadRecord(id) decodes a slot
\* whose stored RecordID is id, after any WriteRecord and PurgeFrom calls
C29_LoadRecordDecodesOwnSlot ==
    iseg.made =>
        \A id \in 0..(MaxFirstID + MaxSegmentSlots) :
            ContainsRecord(iseg.s, id) => LoadRecord(iseg.s, id, ZeroRecord).rec.RecordID = id

\* C30: when PurgeFrom has returned, the header fields LowerRecord, RecordsCount
\* and Purged on disk equal the in-memory values, and a segment closed and
\* opened again loads the LowerRecord and RecordsCount it had in memory
C30_PurgeFromFlushesHeader ==
    /\ iseg.op = "purge" =>
           /\ iseg.s.Metadata.LowerRecord = iseg.s.LowerRecord
           /\ iseg.s.Metadata.RecordsCount = iseg.s.RecordsCount
           /\ iseg.s.Metadata.Purged = iseg.s.Purged
    /\ iseg.op = "reopen" =>
           /\ iseg.s.LowerRecord = iseg.lower
           /\ iseg.s.RecordsCount = iseg.count

\* C31: in every reachable state the written slots of each index segment hold
\* record ids that go up by exactly one from each slot to the next, from slot 0
C31_SlotsHoldConsecutiveIDs ==
    \A k \in DOMAIN index.Segments :
        \A j \in 1..(Len(index.Segments[k].Records) - 1) :
            j < index.Segments[k].Cursor \div IndexRecordSize =>
                index.Segments[k].Records[j + 1].RecordID =
                    index.Segments[k].Records[j].RecordID + 1

\* C32: for every index segment in every reachable state, Cursor is a multiple
\* of IndexRecordSize with 0 <= Cursor <= Size, and
\* UpperRecord - LowerRecord + 1 >= RecordsCount
C32_SegmentHeaderInvariant ==
    \A k \in DOMAIN index.Segments :
        /\ index.Segments[k].Cursor % IndexRecordSize = 0
        /\ index.Segments[k].Cursor >= 0
        /\ index.Segments[k].Cursor <= index.Segments[k].Size
        /\ index.Segments[k].UpperRecord - index.Segments[k].LowerRecord + 1
              >= index.Segments[k].RecordsCount

\* C33: in every reachable state at most one loaded index segment contains any
\* given record id, so SegmentForID(id) and LookupMeta(id) have one answer
\* whatever order the segment map is ranged over
C33_OneSegmentPerRecordID ==
    \A id \in 0..(MaxWrites + 1) :
        /\ Cardinality(SegmentsForID(index, id)) <= 1
        /\ Cardinality(LookupMeta(index, id)) <= 1

\* C34: every index record Append produces, for any payload length (0 and
\* lengths above DataSegmentSize too), has DataSegmentStartID <= DataSegmentEndID
\* and 0 <= DataSegmentOffset < DataSegmentSize, and its DataSegmentOffset is the
\* cursor the start segment had just before the record's first byte was written
C34_RecordLocatesPayload ==
    \A n \in 1..Len(hist) :
        /\ hist[n].rec.DataSegmentStartID <= hist[n].rec.DataSegmentEndID
        /\ hist[n].rec.DataSegmentOffset >= 0
        /\ hist[n].rec.DataSegmentOffset < config.DataSegmentSize
        /\ Len(hist[n].data) > 0 =>
              hist[n].rec.DataSegmentOffset =
                  IF hist[n].avail > 0 THEN config.DataSegmentSize - hist[n].avail ELSE 0

\* C34 witness: after a vacuum the log holds a record of an empty payload and a
\* record whose payload is longer than DataSegmentSize and ends in a later data
\* segment than it starts in
C34_Witness ==
    /\ \E n \in 1..Len(hist) : Len(hist[n].data) = 0
    /\ \E n \in 1..Len(hist) :
          /\ Len(hist[n].data) > config.DataSegmentSize
          /\ hist[n].rec.DataSegmentStartID < hist[n].rec.DataSegmentEndID
    /\ calls.vacuum > 0

\* C34 witness: a payload that starts inside a data segment and ends in the next
C34_WitnessSplit ==
    \E n \in 1..Len(hist) :
        /\ hist[n].rec.DataSegmentOffset > 0
        /\ hist[n].rec.DataSegmentStartID < hist[n].rec.DataSegmentEndID

\* C35: DataSegment.Write(payload) copies min(len(payload), Size - Cursor) bytes
\* at the old Cursor, returns the old Cursor as offset and the number of bytes
\* copied, and advances Cursor by that number; 0 <= Cursor <= Size always holds
\* and Available() is false exactly when Cursor = Size
C35_WriteCopiesWhatFits ==
    /\ dseg.op = "write" =>
          /\ dseg.written = Min(Len(dseg.data), dseg.before.Size - dseg.before.Cursor)
          /\ dseg.offset = dseg.before.Cursor
          /\ dseg.s.Cursor = dseg.before.Cursor + dseg.written
          /\ \A i \in 1..Len(dseg.s.Records) :
                dseg.s.Records[i] =
                    IF i > dseg.before.Cursor /\ i <= dseg.before.Cursor + dseg.written
                    THEN dseg.data[i - dseg.before.Cursor]
                    ELSE dseg.before.Records[i]
    /\ dseg.made =>
          /\ dseg.s.Cursor >= 0
          /\ dseg.s.Cursor <= dseg.s.Size
          /\ ~DataSegmentAvailable(dseg.s) <=> dseg.s.Cursor = dseg.s.Size

\* C35 witness: a Write of a payload longer than what was left in a segment that
\* held bytes already and had room: a part is copied and the segment is full
C35_Witness ==
    /\ dseg.op = "write"
    /\ dseg.before.Cursor > 0
    /\ dseg.before.Cursor < dseg.before.Size
    /\ Len(dseg.data) > dseg.before.Size - dseg.before.Cursor
    /\ dseg.written > 0
    /\ ~DataSegmentAvailable(dseg.s)

\* C35 witness: a Write of a non-empty payload on a full segment copies nothing
C35_WitnessFull ==
    /\ dseg.op = "write"
    /\ Len(dseg.data) > 0
    /\ dseg.before.Cursor = dseg.before.Size
    /\ dseg.written = 0

\* C36: DataSegment.Read(buf, offset) returns 0 when offset >= Cursor and
\* otherwise copies min(len(buf), Cursor - offset) bytes, those at offset: it
\* never returns bytes at or beyond Cursor, for every buffer length and offset
C36_ReadStopsAtCursor ==
    dseg.op = "read" =>
        /\ ~dseg.read.panic
        /\ dseg.read.n = IF dseg.offset >= dseg.s.Cursor THEN 0
                          ELSE Min(dseg.len, dseg.s.Cursor - dseg.offset)
        /\ dseg.read.bytes = SubSeq(dseg.s.Records, dseg.offset + 1, dseg.offset + dseg.read.n)

\* C36 with the calls left out whose slice expression leaves the segment
\* (offset + len(buf) > Size): the calls that return, among them those that
\* return bytes at or beyond Cursor
C36_ReadStopsAtCursorWhenInside ==
    (dseg.op = "read" /\ dseg.offset >= 0 /\ dseg.offset + dseg.len <= dseg.s.Size) =>
        dseg.read.n = IF dseg.offset >= dseg.s.Cursor THEN 0
                      ELSE Min(dseg.len, dseg.s.Cursor - dseg.offset)

\* C37: after VacuumDataSegments returns, the DataManager's current segment is
\* in its segment map and on disk and its id is MaxSegment; a later payload
\* write does not go to an unlinked segment
C37_CurrentDataSegmentIsLinked ==
    /\ last.op = "vacuum" =>
          /\ dm.CurrentSegment \in dm.Segments
          /\ dm.CurrentSegment \in dm.Files
          /\ DMCurrent(dm).SegmentID = dm.MaxSegment
    /\ (last.op = "write" /\ hist[Len(hist)].data # << >>) =>
          \A d \in hist[Len(hist)].rec.DataSegmentStartID ..
                    hist[Len(hist)].rec.DataSegmentEndID :
              d \in dm.Segments /\ d \in dm.Files

\* the record ids in the written slots of index segment s
C38_RecordIDs(s) ==
    {s.Records[j].RecordID : j \in {x \in 1..Len(s.Records) : x <= s.Cursor \div IndexRecordSize}}

\* whether the index segment file k the index i held is gone from j: not in the
\* map and not on disk, or created anew (empty) by the Rotate of an emptied index
C38_Removed(i, j, k) ==
    \/ k \notin DOMAIN j.Segments /\ k \notin j.Files
    \/ k \in DOMAIN j.Segments /\ i.Segments[k].Cursor > 0 /\ j.Segments[k].Cursor = 0

\* C38: after VacuumObjects(id, true) returns (id naming a record the index
\* holds), every index segment all of whose records have ids <= id is unlinked
\* and out of the segment map, and every index segment holding a record with an
\* id > id is still present; no other operation removes an index segment
C38_VacuumRemovesExactlyPurgedSegments ==
    [][/\ (calls'.vacuum # calls.vacuum /\ last'.found) =>
             \A k \in DOMAIN index.Segments :
                 /\ (C38_RecordIDs(index.Segments[k]) # {} /\
                     \A r \in C38_RecordIDs(index.Segments[k]) : r <= last'.id)
                       => C38_Removed(index, index', k)
                 /\ (\E r \in C38_RecordIDs(index.Segments[k]) : r > last'.id)
                       => ~C38_Removed(index, index', k)
       /\ calls'.vacuum = calls.vacuum =>
             \A k \in DOMAIN index.Segments : ~C38_Removed(index, index', k)]_vars

\* whether a loaded index segment holds, in a written slot not flagged purged, a
\* record whose id is id
C39_RecordExists(id) ==
    \E k \in DOMAIN index.Segments :
        \E j \in 1..Len(index.Segments[k].Records) :
            /\ j <= index.Segments[k].Cursor \div IndexRecordSize
            /\ index.Segments[k].Records[j].RecordID = id
            /\ ~index.Segments[k].Records[j].Purged

\* C39: the ids successive successful Next() calls of one cursor yield go up by
\* exactly one, under any interleaving with appends and vacuums, and a cursor
\* whose next target id is held by no record returns false from Next(), also
\* while live records with larger ids exist
C39_CursorNeverSkips ==
    cursor.made =>
        /\ \A k \in 2..Len(cursor.run) : cursor.run[k].id = cursor.run[k - 1].id + 1
        /\ cursor.ok = "true" => CursorOffset(cursor.c) = cursor.prevWants
        /\ ~C39_RecordExists(cursor.c.wants) =>
              \A o \in CursorNext(index, cursor.c) : ~o.ok

\* C39 witness: a cursor that yielded a record, whose next target was vacuumed
\* since, and that returned false while a live record with a larger id exists
C39_Witness ==
    /\ cursor.made
    /\ Len(cursor.run) >= 1
    /\ cursor.ok = "false"
    /\ cursor.c.wants <= vacMax
    /\ ~C39_RecordExists(cursor.c.wants)
    /\ \E id \in (cursor.c.wants + 1)..MaxWrites : C39_RecordExists(id)

\* C40: under any interleaving of New, Lock and Remove by several Flock
\* instances on one path, at no time do two instances both hold the lock
C40_RemoveKeepsMutualExclusion ==
    \A f \in 1..MaxFlocks : \A g \in 1..MaxFlocks :
        (/\ flock.inst[f].made /\ flock.inst[f].locked /\ ~flock.inst[f].closed
         /\ flock.inst[g].made /\ flock.inst[g].locked /\ ~flock.inst[g].closed) => f = g

====
